---- MODULE Spec2Model ----
(***************************************************************************)
(* SP-GiST radix tree over kmer (spg_kmer.c) and the kmer predicates       *)
(* (dna_sequence.c) of the dna_sequence PostgreSQL extension.              *)
(*                                                                         *)
(* The four operator-class callbacks (choose, picksplit, inner_consistent, *)
(* leaf_consistent) are pure operators translated from the C code.  The    *)
(* state is the index the SP-GiST core builds by applying their results:   *)
(* inner tuples, leaf chains, the heap rows, one insertion in progress and *)
(* one index scan in progress.                                             *)
(*                                                                         *)
(* Bytes are their ASCII codes, node labels are int16 values, array        *)
(* indexes returned by the callbacks (nodeN, mapTuplesToNodes) are         *)
(* zero-based as in C; sequences are one-based.                            *)
(***************************************************************************)
EXTENDS Integers, Sequences, FiniteSets, Bags, TLC

(***************************************************************************)
(* Bounds of the model.                                                    *)
(***************************************************************************)
NumLetters == 2          \* letters of {A,C,G,T} the inserted keys use
MaxKeyLen == 2           \* longest inserted key
MaxInserts == 4          \* rows inserted in one behaviour
LeafCap == 1             \* leaf tuples of a chain that always fit on its page
AllTheSameNodes == 2     \* nodes the core gives an allTheSame inner tuple
MaxConjArgLen == 1       \* longest argument of a key in a two-key scan

(***************************************************************************)
(* Program constants.                                                      *)
(***************************************************************************)
KMER_SIZE == 32
QKMER_SIZE == 32
BLCKSZ == 8192
KMER_EQUAL_STRATEGY == 1
KMER_PREFIX_STRATEGY == 2
KMER_CONTAINS_STRATEGY == 3

Min2(a, b) == IF a < b THEN a ELSE b
Max2(a, b) == IF a > b THEN a ELSE b

SPGIST_MAX_PREFIX_LENGTH == Max2(BLCKSZ - 258 * 16 - 100, 32)

\* 'A', 'C', 'G', 'T'
Nucleotides == <<65, 67, 71, 84>>

KeyAlphabet == {Nucleotides[i] : i \in 1..Min2(NumLetters, 4)}

RECURSIVE StringsUpTo(_, _)
StringsUpTo(alphabet, n) ==
    IF n = 0 THEN {<<>>}
    ELSE LET shorter == StringsUpTo(alphabet, n - 1)
         IN shorter \cup {Append(s, c) : s \in {t \in shorter : Len(t) = n - 1},
                                              c \in alphabet}

\* the kmer values a client inserts (kmer_in accepts the empty string)
Keys == StringsUpTo(KeyAlphabet, MaxKeyLen)

\* the qkmer values of the scans: over 'R' (A or G) and 'N' (any)
PatternAlphabet == {82, 78}

Patterns == StringsUpTo(PatternAlphabet, MaxKeyLen)

(***************************************************************************)
(* Helpers of spg_kmer.c                                                   *)
(***************************************************************************)
\* the bytes of s from offset start (a pointer s + start with the rest length)
Suffix(s, start) == SubSeq(s, start + 1, Len(s))

\* formKmerDatum: a kmer holding the first datalen bytes of data (the short
\* or long varlena header is not visible to the callers)
formKmerDatum(data, datalen) == SubSeq(data, 1, datalen)

RECURSIVE commonPrefixLoop(_, _, _)
commonPrefixLoop(a, b, i) ==
    IF i < Len(a) /\ i < Len(b) /\ a[i + 1] = b[i + 1]
    THEN commonPrefixLoop(a, b, i + 1)
    ELSE i

commonPrefix(a, b) == commonPrefixLoop(a, b, 0)

RECURSIVE searchCharLoop(_, _, _, _)
searchCharLoop(nodeLabels, c, StopLow, StopHigh) ==
    IF StopLow < StopHigh
    THEN LET StopMiddle == (StopLow + StopHigh) \div 2
             middle == nodeLabels[StopMiddle + 1]
         IN IF c < middle
            THEN searchCharLoop(nodeLabels, c, StopLow, StopMiddle)
            ELSE IF c > middle
            THEN searchCharLoop(nodeLabels, c, StopMiddle + 1, StopHigh)
            ELSE [found |-> TRUE, i |-> StopMiddle]
    ELSE [found |-> FALSE, i |-> StopHigh]

\* searchChar that never finds the label
searchCharNeverFinds(nodeLabels, c) ==
    [found |-> FALSE, i |-> searchCharLoop(nodeLabels, c, 0, Len(nodeLabels)).i]

\* searchChar that reports the end of the array as the place to insert
searchCharAppend(nodeLabels, c) ==
    LET s == searchCharLoop(nodeLabels, c, 0, Len(nodeLabels))
    IN IF s.found THEN s ELSE [found |-> FALSE, i |-> Len(nodeLabels)]

\* searchChar that leaves the last label out of the search
searchCharShort(nodeLabels, c) ==
    searchCharLoop(nodeLabels, c, 0, Len(nodeLabels) - 1)

\* binary search: the match location, or where to insert
searchChar(nodeLabels, c) == searchCharLoop(nodeLabels, c, 0, Len(nodeLabels))

(***************************************************************************)
(* spg_kmer_choose                                                         *)
(* in: [datum, level, hasPrefix, prefixDatum, nodeLabels, allTheSame]      *)
(***************************************************************************)
\* chooseSplitPrefix whose upper tuple keeps the first differing byte in its
\* prefix
chooseSplitPrefixLong(prefixStr, commonLen) ==
    [resultType |-> "spgSplitTuple",
     prefixHasPrefix |-> TRUE,
     prefixPrefixDatum |-> formKmerDatum(prefixStr, commonLen + 1),
     prefixNNodes |-> 1,
     prefixNodeLabels |-> <<prefixStr[commonLen + 1]>>,
     childNodeN |-> 0,
     postfixHasPrefix |-> Len(prefixStr) - commonLen # 1,
     postfixPrefixDatum |-> Suffix(prefixStr, commonLen + 1)]

\* chooseSplitPrefix whose lower prefix still starts with the label's byte
chooseSplitPrefixKeepsLabel(prefixStr, commonLen) ==
    [resultType |-> "spgSplitTuple",
     prefixHasPrefix |-> commonLen # 0,
     prefixPrefixDatum |-> formKmerDatum(prefixStr, commonLen),
     prefixNNodes |-> 1,
     prefixNodeLabels |-> <<prefixStr[commonLen + 1]>>,
     childNodeN |-> 0,
     postfixHasPrefix |-> TRUE,
     postfixPrefixDatum |-> Suffix(prefixStr, commonLen)]

chooseSplitPrefix(prefixStr, commonLen) ==
    [resultType |-> "spgSplitTuple",
     prefixHasPrefix |-> commonLen # 0,
     prefixPrefixDatum |-> formKmerDatum(prefixStr, commonLen),
     prefixNNodes |-> 1,
     prefixNodeLabels |-> <<prefixStr[commonLen + 1]>>,
     childNodeN |-> 0,
     postfixHasPrefix |-> Len(prefixStr) - commonLen # 1,
     postfixPrefixDatum |-> Suffix(prefixStr, commonLen + 1)]

\* chooseMatchNode whose rest of the key still starts with the node's byte
chooseMatchNodeKeepsByte(in, commonLen, nodeChar, i) ==
    LET levelAdd == commonLen + (IF nodeChar >= 0 THEN 1 ELSE 0)
    IN [resultType |-> "spgMatchNode",
        nodeN |-> i,
        levelAdd |-> levelAdd,
        restDatum |-> IF Len(in.datum) - in.level - commonLen > 0
                      THEN Suffix(in.datum, in.level + commonLen)
                      ELSE <<>>]

\* chooseMatchNode that counts a level for the dummy label too
chooseMatchNodeCountsDummy(in, commonLen, nodeChar, i) ==
    LET levelAdd == commonLen + 1
    IN [resultType |-> "spgMatchNode",
        nodeN |-> i,
        levelAdd |-> levelAdd,
        restDatum |-> IF Len(in.datum) - in.level - levelAdd > 0
                      THEN Suffix(in.datum, in.level + levelAdd)
                      ELSE <<>>]

chooseMatchNode(in, commonLen, nodeChar, i) ==
    LET levelAdd == commonLen + (IF nodeChar >= 0 THEN 1 ELSE 0)
    IN [resultType |-> "spgMatchNode",
        nodeN |-> i,
        levelAdd |-> levelAdd,
        restDatum |-> IF Len(in.datum) - in.level - levelAdd > 0
                      THEN Suffix(in.datum, in.level + levelAdd)
                      ELSE <<>>]

chooseSplitAllTheSame(in) ==
    [resultType |-> "spgSplitTuple",
     prefixHasPrefix |-> in.hasPrefix,
     prefixPrefixDatum |-> in.prefixDatum,
     prefixNNodes |-> 1,
     prefixNodeLabels |-> <<-2>>,
     childNodeN |-> 0,
     postfixHasPrefix |-> FALSE,
     postfixPrefixDatum |-> <<>>]

\* chooseAddNode that labels the new node as the end of a key
chooseAddNodeDummy(nodeChar, i) ==
    [resultType |-> "spgAddNode", nodeLabel |-> -1, nodeN |-> i]

chooseAddNode(nodeChar, i) ==
    [resultType |-> "spgAddNode", nodeLabel |-> nodeChar, nodeN |-> i]

\* chooseNodeChar that reads the key from its start, not from the level
chooseNodeCharNoLevel(in, commonLen) ==
    IF Len(in.datum) - in.level > commonLen
    THEN in.datum[commonLen + 1]
    ELSE -1

\* the first byte of the key after the prefix, -1 when the key ends there
chooseNodeChar(in, commonLen) ==
    IF Len(in.datum) - in.level > commonLen
    THEN in.datum[in.level + commonLen + 1]
    ELSE -1

\* choose without the branch for all-the-same tuples
spg_kmer_choose_NoAllTheSame(in) ==
    LET prefixStr == IF in.hasPrefix THEN in.prefixDatum ELSE <<>>
        commonLen == IF in.hasPrefix
                     THEN commonPrefix(Suffix(in.datum, in.level), prefixStr)
                     ELSE 0
    IN IF in.hasPrefix /\ commonLen # Len(prefixStr)
       THEN chooseSplitPrefix(prefixStr, commonLen)
       ELSE LET nodeChar == chooseNodeChar(in, commonLen)
                s == searchChar(in.nodeLabels, nodeChar)
            IN IF s.found THEN chooseMatchNode(in, commonLen, nodeChar, s.i)
               ELSE chooseAddNode(nodeChar, s.i)

spg_kmer_choose(in) ==
    LET prefixStr == IF in.hasPrefix THEN in.prefixDatum ELSE <<>>
        commonLen == IF in.hasPrefix
                     THEN commonPrefix(Suffix(in.datum, in.level), prefixStr)
                     ELSE 0
    IN IF in.hasPrefix /\ commonLen # Len(prefixStr)
       THEN chooseSplitPrefix(prefixStr, commonLen)
       ELSE LET nodeChar == chooseNodeChar(in, commonLen)
                s == searchChar(in.nodeLabels, nodeChar)
            IN IF s.found THEN chooseMatchNode(in, commonLen, nodeChar, s.i)
               ELSE IF in.allTheSame THEN chooseSplitAllTheSame(in)
               ELSE chooseAddNode(nodeChar, s.i)

(***************************************************************************)
(* spg_kmer_picksplit                                                      *)
(* datums: the leaf datums of the tuples to split, in->datums[0..nTuples)  *)
(***************************************************************************)
\* the loop for the common prefix stopped after its first pass
pickCommonLenFirstPass(datums, i, commonLen) ==
    IF i < Len(datums) /\ commonLen > 0
    THEN Min2(commonPrefix(datums[1], datums[i + 1]), commonLen)
    ELSE commonLen

RECURSIVE pickCommonLen(_, _, _)
pickCommonLen(datums, i, commonLen) ==
    IF i < Len(datums) /\ commonLen > 0
    THEN LET tmp == commonPrefix(datums[1], datums[i + 1])
         IN pickCommonLen(datums, i + 1, IF tmp < commonLen THEN tmp ELSE commonLen)
    ELSE commonLen

\* pickLabel that takes the value's first byte for the label
pickLabelFirstByte(kmeri, commonLen) ==
    IF commonLen < Len(kmeri) THEN kmeri[1] ELSE -1

\* the node label of a value: its first non-common byte, -1 if all is common
pickLabel(kmeri, commonLen) ==
    IF commonLen < Len(kmeri) THEN kmeri[commonLen + 1] ELSE -1

\* pickLeafDatum that leaves the label byte in the leaf datum
pickLeafDatumKeepLabel(kmeri, commonLen) ==
    IF commonLen < Len(kmeri)
    THEN formKmerDatum(Suffix(kmeri, commonLen), Len(kmeri) - commonLen)
    ELSE <<>>

pickLeafDatum(kmeri, commonLen) ==
    IF commonLen < Len(kmeri)
    THEN formKmerDatum(Suffix(kmeri, commonLen + 1), Len(kmeri) - commonLen - 1)
    ELSE <<>>

\* qsort(nodes, cmpNodePtr): the spgNodePtr array ordered by c
pickSortedNodes(datums, commonLen) ==
    SortSeq([i \in 1..Len(datums) |-> [c |-> pickLabel(datums[i], commonLen),
                                       i |-> i - 1]],
            LAMBDA a, b : a.c < b.c)

spg_kmer_picksplit(datums) ==
    LET nTuples == Len(datums)
        commonLen == Min2(pickCommonLen(datums, 1, Len(datums[1])),
                          SPGIST_MAX_PREFIX_LENGTH)
        nodes == pickSortedNodes(datums, commonLen)
        isNew(j) == j = 1 \/ nodes[j].c # nodes[j - 1].c
        \* out->nNodes after the loop has handled nodes[0..j)
        nNodesAt(j) == Cardinality({m \in 1..j : isNew(m)})
        nNodes == nNodesAt(nTuples)
        at(t) == CHOOSE j \in 1..nTuples : nodes[j].i = t - 1
    IN [hasPrefix |-> commonLen # 0,
        prefixDatum |-> formKmerDatum(datums[1], commonLen),
        nNodes |-> nNodes,
        nodeLabels |-> [n \in 1..nNodes |->
                          nodes[CHOOSE j \in 1..nTuples : isNew(j) /\ nNodesAt(j) = n].c],
        mapTuplesToNodes |-> [t \in 1..nTuples |-> nNodesAt(at(t)) - 1],
        leafTupleDatums |-> [t \in 1..nTuples |-> pickLeafDatum(datums[t], commonLen)]]

(***************************************************************************)
(* Alphabet codec (dna_sequence.h).  -1 stands for ereport(ERROR).         *)
(***************************************************************************)
nucleotide_to_bits(c) ==
    CASE c = 65 -> 1          \* 'A'
      [] c = 67 -> 2          \* 'C'
      [] c = 71 -> 4          \* 'G'
      [] c = 84 -> 8          \* 'T'
      [] OTHER -> -1

\* a table in which K and M have each other's masks
iupacCodeToBitsKM(c) ==
    CASE c = 65 -> 1
      [] c = 67 -> 2
      [] c = 71 -> 4
      [] c = 84 -> 8
      [] c = 82 -> 5
      [] c = 89 -> 10
      [] c = 83 -> 6
      [] c = 87 -> 9
      [] c = 75 -> 3
      [] c = 77 -> 12
      [] c = 66 -> 14
      [] c = 68 -> 13
      [] c = 72 -> 11
      [] c = 86 -> 7
      [] c = 78 -> 15
      [] OTHER -> -1

iupac_code_to_bits(c) ==
    CASE c = 65 -> 1          \* 'A'
      [] c = 67 -> 2          \* 'C'
      [] c = 71 -> 4          \* 'G'
      [] c = 84 -> 8          \* 'T'
      [] c = 82 -> 5          \* 'R' 1|4
      [] c = 89 -> 10         \* 'Y' 2|8
      [] c = 83 -> 6          \* 'S' 2|4
      [] c = 87 -> 9          \* 'W' 1|8
      [] c = 75 -> 12         \* 'K' 4|8
      [] c = 77 -> 3          \* 'M' 1|2
      [] c = 66 -> 14         \* 'B' 2|4|8
      [] c = 68 -> 13         \* 'D' 1|4|8
      [] c = 72 -> 11         \* 'H' 1|2|8
      [] c = 86 -> 7          \* 'V' 1|2|4
      [] c = 78 -> 15         \* 'N' 1|2|4|8
      [] OTHER -> -1

\* q_bits & k_bits on the four mask bits
BitAnd(a, b) ==
    LET bit(x, w) == (x \div w) % 2
        both(w) == IF bit(a, w) = 1 /\ bit(b, w) = 1 THEN w ELSE 0
    IN both(1) + both(2) + both(4) + both(8)

\* toupper on a byte
toupper(c) == IF c >= 97 /\ c <= 122 THEN c - 32 ELSE c

RECURSIVE memcmpLoop(_, _, _, _)
memcmpLoop(a, b, i, n) ==
    IF i >= n THEN 0
    ELSE IF a[i + 1] < b[i + 1] THEN -1
    ELSE IF a[i + 1] > b[i + 1] THEN 1
    ELSE memcmpLoop(a, b, i + 1, n)

memcmp(a, b, n) == memcmpLoop(a, b, 0, n)

\* bitsLoop that leaves the loop after the first position that matches
bitsLoopFirstOnly(qkmer_str, kmer_str, k, n) ==
    IF k >= n THEN "true"
    ELSE LET q_bits == iupac_code_to_bits(qkmer_str[k + 1])
             k_bits == nucleotide_to_bits(kmer_str[k + 1])
         IN IF q_bits = -1 \/ k_bits = -1 THEN "error"
            ELSE IF BitAnd(q_bits, k_bits) = 0 THEN "false"
            ELSE "true"

\* the loop over the first n positions of a pattern and a kmer shared by the
\* callbacks: "true", "false" at the first position without a common bit,
\* "error" when a byte is outside the alphabet
RECURSIVE bitsLoop(_, _, _, _)
bitsLoop(qkmer_str, kmer_str, k, n) ==
    IF k >= n THEN "true"
    ELSE LET q_bits == iupac_code_to_bits(qkmer_str[k + 1])
             k_bits == nucleotide_to_bits(kmer_str[k + 1])
         IN IF q_bits = -1 \/ k_bits = -1 THEN "error"
            ELSE IF BitAnd(q_bits, k_bits) = 0 THEN "false"
            ELSE bitsLoop(qkmer_str, kmer_str, k + 1, n)

(***************************************************************************)
(* The SQL predicates (dna_sequence.c), which a sequential scan applies    *)
(***************************************************************************)
kmer_equals(kmer1, kmer2) ==
    IF Len(kmer1) # Len(kmer2) THEN FALSE
    ELSE memcmp(kmer1, kmer2, Len(kmer1)) = 0

\* kmer_starts_with without the length test, comparing the common length
kmer_starts_with_NoLen(kmer, prefix) ==
    memcmp(kmer, prefix, Min2(Len(kmer), Len(prefix))) = 0

kmer_starts_with(kmer, prefix) ==
    IF Len(prefix) > Len(kmer) THEN FALSE
    ELSE memcmp(kmer, prefix, Len(prefix)) = 0

\* "true", "false" or "error"
contains_qkmer_kmer(pattern, kmer) ==
    IF Len(pattern) # Len(kmer) THEN "false"
    ELSE bitsLoop([i \in 1..Len(pattern) |-> toupper(pattern[i])],
                  [i \in 1..Len(kmer) |-> toupper(kmer[i])], 0, Len(pattern))

\* is_valid_kmer_string: "error" for the ereport(ERROR) on a string longer
\* than KMER_SIZE, else whether every byte is one of a c g t in either case
is_valid_kmer_string(str) ==
    IF Len(str) > KMER_SIZE THEN "error"
    ELSE IF \A i \in 1..Len(str) : toupper(str[i]) \in {65, 67, 71, 84}
    THEN "true" ELSE "false"

\* kmer_in: the kmer built from a C string, or the error
kmer_in(input) ==
    IF is_valid_kmer_string(input) # "true"
    THEN [error |-> TRUE, value |-> <<>>]
    ELSE [error |-> FALSE,
          value |-> [i \in 1..Len(input) |-> toupper(input[i])]]

\* kmer_cast_text: the kmer built from a text, or the error; the bytes are
\* copied with memcpy
kmer_cast_text(txt) ==
    IF is_valid_kmer_string(txt) # "true"
    THEN [error |-> TRUE, value |-> <<>>]
    ELSE [error |-> FALSE, value |-> txt]

\* generate_kmers, first call, with max_calls one short of the windows
generateKmersFirstCallShort(dna_input, k) ==
    LET dna_length == Len(dna_input)
    IN IF k <= 0 \/ k > dna_length
       THEN [error |-> TRUE]
       ELSE [error |-> FALSE, dna_sequence |-> dna_input, dna_length |-> dna_length,
             k |-> k, call_cntr |-> 0, max_calls |-> dna_length - k]

\* generate_kmers, first call: the check of k and the function context
generateKmersFirstCall(dna_input, k) ==
    LET dna_length == Len(dna_input)
    IN IF k <= 0 \/ k > dna_length
       THEN [error |-> TRUE]
       ELSE [error |-> FALSE, dna_sequence |-> dna_input, dna_length |-> dna_length,
             k |-> k, call_cntr |-> 0, max_calls |-> dna_length - k + 1]

\* generate_kmers, every call: the next kmer, or the end of the set
generateKmersPerCall(funcctx) ==
    IF funcctx.call_cntr < funcctx.max_calls
    THEN [done |-> FALSE,
          result |-> SubSeq(funcctx.dna_sequence, funcctx.call_cntr + 1,
                            funcctx.call_cntr + funcctx.k)]
    ELSE [done |-> TRUE, result |-> <<>>]

(***************************************************************************)
(* spg_kmer_inner_consistent                                               *)
(* in: [scankeys, reconstructedValue, level, hasPrefix, prefixDatum,       *)
(*      nodeLabels]; a scan key is [sk_strategy, sk_argument]; a           *)
(* reconstructed value is [isNull, data].                                  *)
(* out: [error, nodes], nodes the visited ones in node order, each         *)
(* [nodeNumber, levelAdd, reconstructedValue]                              *)
(***************************************************************************)
\* innerKeyTest that never prunes on the prefix strategy
innerKeyTestPrefixNeverPrunes(key, reconstr, thisLen) ==
    LET inSize == Len(key.sk_argument)
        r == memcmp(reconstr, key.sk_argument, Min2(inSize, thisLen))
    IN CASE key.sk_strategy = KMER_EQUAL_STRATEGY ->
              IF r # 0 \/ inSize < thisLen THEN "false" ELSE "true"
         [] key.sk_strategy = KMER_PREFIX_STRATEGY -> "true"
         [] key.sk_strategy = KMER_CONTAINS_STRATEGY ->
              IF inSize < thisLen THEN "false"
              ELSE bitsLoop(key.sk_argument, reconstr, 0, thisLen)
         [] OTHER -> "error"

\* innerKeyTest with the equal strategy pruned like the prefix strategy
innerKeyTestEqualAsPrefix(key, reconstr, thisLen) ==
    LET inSize == Len(key.sk_argument)
        r == memcmp(reconstr, key.sk_argument, Min2(inSize, thisLen))
    IN CASE key.sk_strategy = KMER_EQUAL_STRATEGY ->
              IF r # 0 THEN "false" ELSE "true"
         [] key.sk_strategy = KMER_PREFIX_STRATEGY ->
              IF r # 0 THEN "false" ELSE "true"
         [] key.sk_strategy = KMER_CONTAINS_STRATEGY ->
              IF inSize < thisLen THEN "false"
              ELSE bitsLoop(key.sk_argument, reconstr, 0, thisLen)
         [] OTHER -> "error"

\* innerKeyTest with the prefix strategy pruned like the equal strategy
innerKeyTestPrefixAsEqual(key, reconstr, thisLen) ==
    LET inSize == Len(key.sk_argument)
        r == memcmp(reconstr, key.sk_argument, Min2(inSize, thisLen))
    IN CASE key.sk_strategy = KMER_EQUAL_STRATEGY ->
              IF r # 0 \/ inSize < thisLen THEN "false" ELSE "true"
         [] key.sk_strategy = KMER_PREFIX_STRATEGY ->
              IF r # 0 \/ inSize < thisLen THEN "false" ELSE "true"
         [] key.sk_strategy = KMER_CONTAINS_STRATEGY ->
              IF inSize < thisLen THEN "false"
              ELSE bitsLoop(key.sk_argument, reconstr, 0, thisLen)
         [] OTHER -> "error"

\* the verdict of one scan key on the value reconstructed for a node
innerKeyTest(key, reconstr, thisLen) ==
    LET inSize == Len(key.sk_argument)
        r == memcmp(reconstr, key.sk_argument, Min2(inSize, thisLen))
    IN CASE key.sk_strategy = KMER_EQUAL_STRATEGY ->
              IF r # 0 \/ inSize < thisLen THEN "false" ELSE "true"
         [] key.sk_strategy = KMER_PREFIX_STRATEGY ->
              IF r # 0 THEN "false" ELSE "true"
         [] key.sk_strategy = KMER_CONTAINS_STRATEGY ->
              IF inSize < thisLen THEN "false"
              ELSE bitsLoop(key.sk_argument, reconstr, 0, thisLen)
         [] OTHER -> "error"

\* the loop over the scan keys: it stops at the first key that fails
RECURSIVE innerKeysLoop(_, _, _, _)
innerKeysLoop(scankeys, j, reconstr, thisLen) ==
    IF j >= Len(scankeys) THEN "true"
    ELSE LET res == innerKeyTest(scankeys[j + 1], reconstr, thisLen)
         IN IF res = "true" THEN innerKeysLoop(scankeys, j + 1, reconstr, thisLen)
            ELSE res

\* innerThisLen without the test for a dummy label
innerThisLenNoDummy(nodeChar, maxReconstrLen) == maxReconstrLen

\* the length of the value reconstructed for a node: a dummy label adds no byte
innerThisLen(nodeChar, maxReconstrLen) ==
    IF nodeChar <= 0 THEN maxReconstrLen - 1 ELSE maxReconstrLen

\* inner_consistent that hands the buffer of maxReconstrLen bytes back
\* without setting its size to thisLen
spg_kmer_inner_consistent_NoSetVarsize(in) ==
    LET prefixSize == IF in.hasPrefix THEN Len(in.prefixDatum) ELSE 0
        maxReconstrLen == in.level + 1 + prefixSize
        base == (IF in.level > 0 THEN SubSeq(in.reconstructedValue.data, 1, in.level)
                 ELSE <<>>)
                \o (IF prefixSize > 0 THEN in.prefixDatum ELSE <<>>)
        nNodes == Len(in.nodeLabels)
        \* one pass of the loop over the nodes, for node i
        node == [i \in 0..(nNodes - 1) |->
                   LET nodeChar == in.nodeLabels[i + 1]
                       thisLen == innerThisLen(nodeChar, maxReconstrLen)
                       reconstr == IF thisLen = maxReconstrLen
                                   THEN Append(base, nodeChar) ELSE base
                   IN [res |-> innerKeysLoop(in.scankeys, 0, reconstr, thisLen),
                       thisLen |-> thisLen,
                       reconstr |-> reconstr,
                       buffer |-> Append(base, nodeChar)]]
        RECURSIVE emit(_)
        emit(i) == IF i >= nNodes THEN <<>>
                   ELSE (IF node[i].res = "true"
                         THEN <<[nodeNumber |-> i,
                                 levelAdd |-> node[i].thisLen - in.level,
                                 reconstructedValue |->
                                     [isNull |-> FALSE, data |-> node[i].buffer]]>>
                         ELSE <<>>) \o emit(i + 1)
    IN IF \E i \in 0..(nNodes - 1) : node[i].res = "error"
       THEN [error |-> TRUE, nodes |-> <<>>]
       ELSE [error |-> FALSE, nodes |-> emit(0)]

spg_kmer_inner_consistent(in) ==
    LET prefixSize == IF in.hasPrefix THEN Len(in.prefixDatum) ELSE 0
        maxReconstrLen == in.level + 1 + prefixSize
        base == (IF in.level > 0 THEN SubSeq(in.reconstructedValue.data, 1, in.level)
                 ELSE <<>>)
                \o (IF prefixSize > 0 THEN in.prefixDatum ELSE <<>>)
        nNodes == Len(in.nodeLabels)
        \* one pass of the loop over the nodes, for node i
        node == [i \in 0..(nNodes - 1) |->
                   LET nodeChar == in.nodeLabels[i + 1]
                       thisLen == innerThisLen(nodeChar, maxReconstrLen)
                       reconstr == IF thisLen = maxReconstrLen
                                   THEN Append(base, nodeChar) ELSE base
                   IN [res |-> innerKeysLoop(in.scankeys, 0, reconstr, thisLen),
                       thisLen |-> thisLen,
                       reconstr |-> reconstr]]
        RECURSIVE emit(_)
        emit(i) == IF i >= nNodes THEN <<>>
                   ELSE (IF node[i].res = "true"
                         THEN <<[nodeNumber |-> i,
                                 levelAdd |-> node[i].thisLen - in.level,
                                 reconstructedValue |->
                                     [isNull |-> FALSE, data |-> node[i].reconstr]]>>
                         ELSE <<>>) \o emit(i + 1)
    IN IF \E i \in 0..(nNodes - 1) : node[i].res = "error"
       THEN [error |-> TRUE, nodes |-> <<>>]
       ELSE [error |-> FALSE, nodes |-> emit(0)]

(***************************************************************************)
(* spg_kmer_leaf_consistent                                                *)
(* in: [scankeys, reconstructedValue, level, leafDatum]                    *)
(* out: [error, res, leafValue]                                            *)
(***************************************************************************)
\* leafKeyTest whose equal strategy compares the common length only
leafKeyTestEqualNoLen(key, level, fullValue, fullLen) ==
    LET queryLen == Len(key.sk_argument)
    IN CASE key.sk_strategy = KMER_EQUAL_STRATEGY ->
              IF memcmp(fullValue, key.sk_argument, Min2(queryLen, fullLen)) = 0
              THEN "true" ELSE "false"
         [] key.sk_strategy = KMER_PREFIX_STRATEGY ->
              IF level >= queryLen \/ kmer_starts_with(fullValue, key.sk_argument)
              THEN "true" ELSE "false"
         [] key.sk_strategy = KMER_CONTAINS_STRATEGY ->
              IF fullLen # queryLen THEN "false"
              ELSE bitsLoop(key.sk_argument, fullValue, 0, fullLen)
         [] OTHER -> "error"

\* leafKeyTest whose contains strategy tests the lengths as inner_consistent
\* does: only a pattern shorter than the value fails
leafKeyTestContainsLikeInner(key, level, fullValue, fullLen) ==
    LET queryLen == Len(key.sk_argument)
    IN CASE key.sk_strategy = KMER_EQUAL_STRATEGY ->
              IF memcmp(fullValue, key.sk_argument, Min2(queryLen, fullLen)) = 0
                 /\ queryLen = fullLen
              THEN "true" ELSE "false"
         [] key.sk_strategy = KMER_PREFIX_STRATEGY ->
              IF level >= queryLen \/ kmer_starts_with(fullValue, key.sk_argument)
              THEN "true" ELSE "false"
         [] key.sk_strategy = KMER_CONTAINS_STRATEGY ->
              IF queryLen < fullLen THEN "false"
              ELSE bitsLoop(key.sk_argument, fullValue, 0, fullLen)
         [] OTHER -> "error"

\* the verdict of one scan key on the full value of a leaf tuple
leafKeyTest(key, level, fullValue, fullLen) ==
    LET queryLen == Len(key.sk_argument)
    IN CASE key.sk_strategy = KMER_EQUAL_STRATEGY ->
              IF memcmp(fullValue, key.sk_argument, Min2(queryLen, fullLen)) = 0
                 /\ queryLen = fullLen
              THEN "true" ELSE "false"
         [] key.sk_strategy = KMER_PREFIX_STRATEGY ->
              IF level >= queryLen \/ kmer_starts_with(fullValue, key.sk_argument)
              THEN "true" ELSE "false"
         [] key.sk_strategy = KMER_CONTAINS_STRATEGY ->
              IF fullLen # queryLen THEN "false"
              ELSE bitsLoop(key.sk_argument, fullValue, 0, fullLen)
         [] OTHER -> "error"

\* leafKeysLoop that goes through all scan keys, whatever their verdicts
RECURSIVE leafKeysLoopAll(_, _, _, _, _)
leafKeysLoopAll(scankeys, j, level, fullValue, fullLen) ==
    IF j >= Len(scankeys) THEN "true"
    ELSE LET res == leafKeyTest(scankeys[j + 1], level, fullValue, fullLen)
             rest == leafKeysLoopAll(scankeys, j + 1, level, fullValue, fullLen)
         IN IF res = "error" \/ rest = "error" THEN "error"
            ELSE IF res = "true" THEN rest
            ELSE res

RECURSIVE leafKeysLoop(_, _, _, _, _)
leafKeysLoop(scankeys, j, level, fullValue, fullLen) ==
    IF j >= Len(scankeys) THEN "true"
    ELSE LET res == leafKeyTest(scankeys[j + 1], level, fullValue, fullLen)
         IN IF res = "true"
            THEN leafKeysLoop(scankeys, j + 1, level, fullValue, fullLen)
            ELSE res

\* leafFullValue without the reconstructed value
leafFullValueDatumOnly(in) == in.leafDatum

\* the full value of the leaf tuple: the reconstructed value, then the datum
leafFullValue(in) ==
    IF Len(in.leafDatum) = 0 /\ in.level > 0
    THEN in.reconstructedValue.data
    ELSE (IF in.level > 0 THEN SubSeq(in.reconstructedValue.data, 1, in.level)
          ELSE <<>>) \o in.leafDatum

spg_kmer_leaf_consistent(in) ==
    LET fullLen == in.level + Len(in.leafDatum)
        fullValue == leafFullValue(in)
        res == leafKeysLoop(in.scankeys, 0, in.level, fullValue, fullLen)
    IN [error |-> res = "error", res |-> res = "true", leafValue |-> fullValue]

(***************************************************************************)
(* The operator class (dna_sequence--1.0.sql): the strategy number under   *)
(* which each operator is registered, and the branch of the consistent     *)
(* callbacks' switch that a strategy number reaches.                       *)
(***************************************************************************)
\* OPERATOR 3 = (kmer, kmer), OPERATOR 6 ^@ (kmer, kmer), OPERATOR 7 @> (qkmer, kmer)
spgist_kmer_ops(predicate) ==
    CASE predicate = "equal" -> 3
      [] predicate = "prefix" -> 6
      [] predicate = "contains" -> 7

StrategyBranch(strategy) ==
    CASE strategy = KMER_EQUAL_STRATEGY -> "equal"
      [] strategy = KMER_PREFIX_STRATEGY -> "prefix"
      [] strategy = KMER_CONTAINS_STRATEGY -> "contains"
      [] OTHER -> "unrecognized"

(***************************************************************************)
(* State: the index as the SP-GiST core keeps it.                          *)
(*   tuples  inner tuples, by number: [hasPrefix, prefixDatum, allTheSame, *)
(*           nodeLabels, downlinks]; node i has label nodeLabels[i] and    *)
(*           downlink downlinks[i]                                         *)
(*   root    the downlink of the root page                                 *)
(*   heap    the indexed column of the table rows: a bag of kmer values    *)
(*   ins     the insertion in progress                                     *)
(*   scan    the last index scan: its scan keys and, once it is "done",    *)
(*           the bag of [heapPtr, leafValue] it returned; "error" when a   *)
(*           callback raised an error                                      *)
(*   call    a direct call of one callback on its own: the input struct    *)
(*           and, once it has "returned", the output struct                *)
(* A downlink is [inner, leaves]: the number of an inner tuple, or (inner  *)
(* = 0) a chain of leaf tuples [leafDatum, heapPtr], empty for a node that *)
(* has no children yet.  heapPtr stands for the leaf tuple's heap pointer: *)
(* it is the kmer value of the row pointed to.                             *)
(***************************************************************************)
VARIABLES tuples, root, heap, ins, scan, call

vars == <<tuples, root, heap, ins, scan, call>>

NoDownlink == [inner |-> 0, leaves |-> <<>>]

InsIdle ==
    [state |-> "idle", datum |-> <<>>, level |-> 0,
     leafDatum |-> <<>>, parent |-> 0, nodeN |-> 0]

ScanIdle ==
    [state |-> "idle", via |-> "", scankeys |-> <<>>, out |-> EmptyBag]

NoCall == [state |-> "none"]

\* the downlink the insertion stands at: the root, or node nodeN of parent
InsTarget ==
    IF ins.parent = 0 THEN root ELSE tuples[ins.parent].downlinks[ins.nodeN]

\* tuples and root with the insertion's downlink replaced by d
TuplesWithTarget(tt, d) ==
    IF ins.parent = 0 THEN tt
    ELSE [tt EXCEPT ![ins.parent].downlinks[ins.nodeN] = d]

RootWithTarget(d) == IF ins.parent = 0 THEN d ELSE root

\* the spgChooseIn the core builds for inner tuple t
ChooseIn(t) ==
    [datum |-> ins.datum,
     level |-> ins.level,
     hasPrefix |-> tuples[t].hasPrefix,
     prefixDatum |-> tuples[t].prefixDatum,
     nodeLabels |-> tuples[t].nodeLabels,
     allTheSame |-> tuples[t].allTheSame]

InsertSeq(s, pos, e) ==
    SubSeq(s, 1, pos) \o <<e>> \o SubSeq(s, pos + 1, Len(s))

(***************************************************************************)
(* The core's use of picksplit's result (doPickSplit).  When every tuple   *)
(* went to one node the core overrides the result (checkAllTheSame): the   *)
(* inner tuple becomes allTheSame, with AllTheSameNodes nodes that all     *)
(* carry that node's label, and the tuples are dealt out round-robin.      *)
(***************************************************************************)
checkAllTheSame(out) ==
    LET nTuples == Len(out.mapTuplesToNodes)
        theNode == out.mapTuplesToNodes[1]
    IN nTuples > 1 /\ \A i \in 1..nTuples : out.mapTuplesToNodes[i] = theNode

PickSplitTuple(leaves) ==
    LET out == spg_kmer_picksplit([i \in 1..Len(leaves) |-> leaves[i].leafDatum])
        same == checkAllTheSame(out)
        nNodes == IF same THEN AllTheSameNodes ELSE out.nNodes
        labels == IF same
                  THEN [n \in 1..nNodes |-> out.nodeLabels[out.mapTuplesToNodes[1] + 1]]
                  ELSE out.nodeLabels
        map(i) == IF same THEN (i - 1) % nNodes ELSE out.mapTuplesToNodes[i]
        chain(n) == LET idx == {i \in 1..Len(leaves) : map(i) = n - 1}
                        RECURSIVE build(_)
                        build(S) == IF S = {} THEN <<>>
                                    ELSE LET i == CHOOSE x \in S : \A y \in S : x <= y
                                         IN <<[leafDatum |-> out.leafTupleDatums[i],
                                               heapPtr |-> leaves[i].heapPtr]>> \o build(S \ {i})
                    IN build(idx)
    IN [hasPrefix |-> out.hasPrefix,
        prefixDatum |-> IF out.hasPrefix THEN out.prefixDatum ELSE <<>>,
        allTheSame |-> same,
        nodeLabels |-> labels,
        downlinks |-> [n \in 1..nNodes |-> [inner |-> 0, leaves |-> chain(n)]]]

(***************************************************************************)
(* Insertion (the core's spgdoinsert loop around choose and picksplit)     *)
(***************************************************************************)
InsertBegin(k) ==
    /\ ins.state = "idle"
    /\ scan.state = "idle"
    /\ BagCardinality(heap) < MaxInserts
    /\ heap' = heap (+) SetToBag({k})
    /\ ins' = [state |-> "descend", datum |-> k,
               level |-> 0, leafDatum |-> k, parent |-> 0, nodeN |-> 0]
    /\ UNCHANGED <<tuples, root, scan, call>>

\* the leaf page has room: the new leaf tuple joins the chain
InsertAddLeaf ==
    /\ ins.state = "descend"
    /\ InsTarget.inner = 0
    /\ Len(InsTarget.leaves) = 0 \/ Len(InsTarget.leaves) < LeafCap
    /\ LET d == [inner |-> 0,
                 leaves |-> Append(InsTarget.leaves,
                                   [leafDatum |-> ins.leafDatum, heapPtr |-> ins.datum])]
       IN /\ tuples' = TuplesWithTarget(tuples, d)
          /\ root' = RootWithTarget(d)
    /\ ins' = InsIdle
    /\ UNCHANGED <<heap, scan, call>>

\* the leaf page is full: the chain and the new tuple become an inner tuple
InsertPickSplit ==
    /\ ins.state = "descend"
    /\ InsTarget.inner = 0
    /\ Len(InsTarget.leaves) >= 1
    /\ LET batch == Append(InsTarget.leaves,
                           [leafDatum |-> ins.leafDatum, heapPtr |-> ins.datum])
           d == [inner |-> Len(tuples) + 1, leaves |-> <<>>]
       IN /\ tuples' = Append(TuplesWithTarget(tuples, d), PickSplitTuple(batch))
          /\ root' = RootWithTarget(d)
    /\ ins' = InsIdle
    /\ UNCHANGED <<heap, scan, call>>

\* spgMatchNode: descend into node nodeN (any node of an allTheSame tuple)
InsertMatchNode ==
    /\ ins.state = "descend"
    /\ InsTarget.inner # 0
    /\ LET t == InsTarget.inner
           out == spg_kmer_choose(ChooseIn(t))
       IN /\ out.resultType = "spgMatchNode"
          /\ \E n \in 1..Len(tuples[t].nodeLabels) :
                /\ tuples[t].allTheSame \/ n = out.nodeN + 1
                /\ ins' = [ins EXCEPT !.parent = t, !.nodeN = n,
                                      !.level = @ + out.levelAdd,
                                      !.leafDatum = out.restDatum]
    /\ UNCHANGED <<tuples, root, heap, scan, call>>

\* spgAddNode: a node with the new label enters the node array at nodeN;
\* choose is called again on the same tuple
InsertAddNode ==
    /\ ins.state = "descend"
    /\ InsTarget.inner # 0
    /\ LET t == InsTarget.inner
           out == spg_kmer_choose(ChooseIn(t))
       IN /\ out.resultType = "spgAddNode"
          /\ ~tuples[t].allTheSame
          /\ tuples' = [tuples EXCEPT
                          ![t].nodeLabels = InsertSeq(@, out.nodeN, out.nodeLabel),
                          ![t].downlinks = InsertSeq(@, out.nodeN, NoDownlink)]
    /\ UNCHANGED <<root, heap, ins, scan, call>>

\* spgSplitTuple: the tuple is replaced by the prefix tuple, whose node
\* childNodeN leads to the new postfix tuple holding all the old nodes;
\* choose is called again on the prefix tuple
InsertSplitTuple ==
    /\ ins.state = "descend"
    /\ InsTarget.inner # 0
    /\ LET t == InsTarget.inner
           out == spg_kmer_choose(ChooseIn(t))
           postfix == [hasPrefix |-> out.postfixHasPrefix,
                       prefixDatum |-> IF out.postfixHasPrefix
                                       THEN out.postfixPrefixDatum ELSE <<>>,
                       allTheSame |-> tuples[t].allTheSame,
                       nodeLabels |-> tuples[t].nodeLabels,
                       downlinks |-> tuples[t].downlinks]
           prefix == [hasPrefix |-> out.prefixHasPrefix,
                      prefixDatum |-> IF out.prefixHasPrefix
                                      THEN out.prefixPrefixDatum ELSE <<>>,
                      allTheSame |-> FALSE,
                      nodeLabels |-> out.prefixNodeLabels,
                      downlinks |-> [n \in 1..out.prefixNNodes |->
                                       IF n = out.childNodeN + 1
                                       THEN [inner |-> Len(tuples) + 1, leaves |-> <<>>]
                                       ELSE NoDownlink]]
       IN /\ out.resultType = "spgSplitTuple"
          /\ tuples' = Append([tuples EXCEPT ![t] = prefix], postfix)
    /\ UNCHANGED <<root, heap, ins, scan, call>>

(***************************************************************************)
(* Index scan (the core's spgWalk loop around the consistent callbacks)    *)
(***************************************************************************)
RECURSIVE BagOfSeq(_)
BagOfSeq(s) ==
    IF s = <<>> THEN EmptyBag ELSE SetToBag({Head(s)}) (+) BagOfSeq(Tail(s))

RECURSIVE BagSum(_)
BagSum(bags) ==
    IF bags = <<>> THEN EmptyBag ELSE Head(bags) (+) BagSum(Tail(bags))

\* the leaf tuples of a chain that leaf_consistent accepts
WalkLeaves(leaves, level, recon, scankeys) ==
    LET r == [i \in 1..Len(leaves) |->
                spg_kmer_leaf_consistent([scankeys |-> scankeys,
                                          reconstructedValue |-> recon,
                                          level |-> level,
                                          leafDatum |-> leaves[i].leafDatum])]
        hit(i) == IF r[i].res
                  THEN SetToBag({[heapPtr |-> leaves[i].heapPtr,
                                  leafValue |-> r[i].leafValue]})
                  ELSE EmptyBag
    IN IF \E i \in 1..Len(leaves) : r[i].error
       THEN [error |-> TRUE, out |-> EmptyBag]
       ELSE [error |-> FALSE, out |-> BagSum([i \in 1..Len(leaves) |-> hit(i)])]

\* the walk below downlink d: every node inner_consistent returns is visited
\* with the level and the reconstructed value it returned for the node
RECURSIVE Walk(_, _, _, _)
Walk(d, level, recon, scankeys) ==
    IF d.inner = 0
    THEN WalkLeaves(d.leaves, level, recon, scankeys)
    ELSE LET t == tuples[d.inner]
             ic == spg_kmer_inner_consistent([scankeys |-> scankeys,
                                              reconstructedValue |-> recon,
                                              level |-> level,
                                              hasPrefix |-> t.hasPrefix,
                                              prefixDatum |-> t.prefixDatum,
                                              nodeLabels |-> t.nodeLabels])
             sub == [j \in 1..Len(ic.nodes) |->
                       Walk(t.downlinks[ic.nodes[j].nodeNumber + 1],
                            level + ic.nodes[j].levelAdd,
                            ic.nodes[j].reconstructedValue,
                            scankeys)]
         IN IF ic.error \/ \E j \in 1..Len(ic.nodes) : sub[j].error
            THEN [error |-> TRUE, out |-> EmptyBag]
            ELSE [error |-> FALSE,
                  out |-> BagSum([j \in 1..Len(ic.nodes) |-> sub[j].out])]

NullDatum == [isNull |-> TRUE, data |-> <<>>]

IndexScan(scankeys) == Walk(root, 0, NullDatum, scankeys)

Predicates == {"equal", "prefix", "contains"}

\* the strategy number the callbacks define for a predicate
CallbackStrategy(predicate) ==
    CASE predicate = "equal" -> KMER_EQUAL_STRATEGY
      [] predicate = "prefix" -> KMER_PREFIX_STRATEGY
      [] predicate = "contains" -> KMER_CONTAINS_STRATEGY

ArgsOf(predicate) == IF predicate = "contains" THEN Patterns ELSE Keys

\* scan keys carrying the callbacks' own strategy numbers; predicate records
\* which predicate the key was built for
CallbackKeys ==
    {[sk_strategy |-> CallbackStrategy(p), sk_argument |-> a, predicate |-> p] :
        p \in Predicates, a \in Keys \cup Patterns}

ScanKeyLists ==
    {<<k>> : k \in {x \in CallbackKeys : x.sk_argument \in ArgsOf(x.predicate)}}
    \cup
    {<<k1, k2>> : k1, k2 \in {x \in CallbackKeys :
                                /\ x.sk_argument \in ArgsOf(x.predicate)
                                /\ Len(x.sk_argument) <= MaxConjArgLen}}

\* scan keys as the planner builds them for an indexable clause: the
\* strategy number is the one the operator has in the operator class
OpclassKeyLists ==
    {<<[sk_strategy |-> spgist_kmer_ops(p), sk_argument |-> a, predicate |-> p]>> :
        p \in Predicates, a \in {x \in Keys : Len(x) <= MaxConjArgLen}}

RunScan(via, scankeys) ==
    /\ ins.state = "idle"
    /\ scan.state = "idle"
    /\ LET w == IndexScan(scankeys)
       IN scan' = [state |-> IF w.error THEN "error" ELSE "done",
                   via |-> via, scankeys |-> scankeys, out |-> w.out]
    /\ UNCHANGED <<tuples, root, heap, ins, call>>

ScanCallback == \E scankeys \in ScanKeyLists : RunScan("callback", scankeys)

ScanOpclass == \E scankeys \in OpclassKeyLists : RunScan("opclass", scankeys)

ScanEnd ==
    /\ scan.state # "idle"
    /\ scan' = ScanIdle
    /\ UNCHANGED <<tuples, root, heap, ins, call>>

Insert ==
    \/ \E k \in Keys : InsertBegin(k)
    \/ InsertAddLeaf
    \/ InsertPickSplit
    \/ InsertMatchNode
    \/ InsertAddNode
    \/ InsertSplitTuple

Init ==
    /\ tuples = <<>>
    /\ root = NoDownlink
    /\ heap = EmptyBag
    /\ ins = InsIdle
    /\ scan = ScanIdle
    /\ call = NoCall

Next == Insert \/ ScanCallback \/ ScanOpclass \/ ScanEnd

Spec == Init /\ [][Next]_vars

(***************************************************************************)
(* A callback called on its own.  The inputs are drawn from bounded sets   *)
(* and satisfy the callback's entry assertion: the reconstructed value is  *)
(* level bytes long, and may be null at level 0.                           *)
(***************************************************************************)
ReconstructedValues ==
    {NullDatum} \cup {[isNull |-> FALSE, data |-> k] : k \in Keys}

LeafConsistentIn(sk, rv, ld) ==
    [scankeys |-> sk, reconstructedValue |-> rv,
     level |-> Len(rv.data), leafDatum |-> ld]

CallInit ==
    /\ tuples = <<>>
    /\ root = NoDownlink
    /\ heap = EmptyBag
    /\ ins = InsIdle
    /\ scan = ScanIdle
    /\ \E sk \in ScanKeyLists, rv \in ReconstructedValues, ld \in Keys :
          call = [state |-> "called", fn |-> "spg_kmer_leaf_consistent",
                  in |-> LeafConsistentIn(sk, rv, ld)]

LeafConsistentCall ==
    /\ call.state = "called"
    /\ call.fn = "spg_kmer_leaf_consistent"
    /\ call' = [state |-> "returned", fn |-> call.fn, in |-> call.in,
                out |-> spg_kmer_leaf_consistent(call.in)]
    /\ UNCHANGED <<tuples, root, heap, ins, scan>>

CallNext == LeafConsistentCall

CallSpec == CallInit /\ [][CallNext]_vars

(***************************************************************************)
(* Reading the tree                                                        *)
(***************************************************************************)
\* the bytes a node label adds to the key: none for the dummy labels
LabelBytes(label) == IF label >= 0 THEN <<label>> ELSE <<>>

\* every leaf tuple below downlink d with the key its path spells, ctx being
\* the bytes spelled above d: a bag of [heapPtr, key]
RECURSIVE LeavesBelow(_, _)
LeavesBelow(d, ctx) ==
    IF d.inner = 0
    THEN BagOfSeq([i \in 1..Len(d.leaves) |->
                     [heapPtr |-> d.leaves[i].heapPtr,
                      key |-> ctx \o d.leaves[i].leafDatum]])
    ELSE LET t == tuples[d.inner]
         IN BagSum([n \in 1..Len(t.nodeLabels) |->
                      LeavesBelow(t.downlinks[n],
                                  ctx \o t.prefixDatum \o LabelBytes(t.nodeLabels[n]))])

\* the rows whose index entry is in place: all but the one being inserted
IndexedRows ==
    IF ins.state = "idle" THEN heap ELSE heap (-) SetToBag({ins.datum})

\* the qualification a sequential scan evaluates on the row value k
SeqScanQual(k, scankeys) ==
    \A j \in 1..Len(scankeys) :
        LET arg == scankeys[j].sk_argument
        IN CASE scankeys[j].predicate = "equal" -> kmer_equals(k, arg)
             [] scankeys[j].predicate = "prefix" -> kmer_starts_with(k, arg)
             [] scankeys[j].predicate = "contains" ->
                    contains_qkmer_kmer(arg, k) = "true"

StrictlyAscending(labels) ==
    \A i \in 1..(Len(labels) - 1) : labels[i] < labels[i + 1]

Occurrences(labels, label) ==
    Cardinality({i \in 1..Len(labels) : labels[i] = label})

(***************************************************************************)
(* Search correctness                                                      *)
(***************************************************************************)
\* C1: whatever keys were inserted in whatever order, an index traversal with
\* any list of equal, prefix and iupac-contains predicates ends without error
\* and returns, as a multiset, exactly the rows a sequential scan keeps with
\* kmer_equals, kmer_starts_with and contains_qkmer_kmer, each with its key.
IndexScanEqualsSeqScan ==
    scan.via = "callback" =>
        /\ scan.state = "done"
        /\ \A e \in BagToSet(scan.out) :
              e.leafValue = e.heapPtr /\ SeqScanQual(e.heapPtr, scan.scankeys)
        /\ \A k \in BagToSet(heap) :
              SeqScanQual(k, scan.scankeys) =>
                  CopiesIn([heapPtr |-> k, leafValue |-> k], scan.out) = CopiesIn(k, heap)

\* a two-predicate scan of a tree with an inner tuple that returned several
\* rows and left others out
IndexScanEqualsSeqScanWitness ==
    /\ scan.state = "done"
    /\ scan.via = "callback"
    /\ Len(scan.scankeys) = 2
    /\ Len(tuples) >= 1
    /\ BagCardinality(scan.out) >= 2
    /\ BagCardinality(scan.out) < BagCardinality(heap)

\* inner_consistent keeps, at every inner tuple below d, every node that has
\* a leaf whose key satisfies the scan keys
RECURSIVE NoMatchPruned(_, _, _, _, _)
NoMatchPruned(d, level, recon, ctx, scankeys) ==
    \/ d.inner = 0
    \/ LET t == tuples[d.inner]
           ic == spg_kmer_inner_consistent([scankeys |-> scankeys,
                                            reconstructedValue |-> recon,
                                            level |-> level,
                                            hasPrefix |-> t.hasPrefix,
                                            prefixDatum |-> t.prefixDatum,
                                            nodeLabels |-> t.nodeLabels])
       IN \A n \in 1..Len(t.nodeLabels) :
             LET sub == ctx \o t.prefixDatum \o LabelBytes(t.nodeLabels[n])
             IN (\E l \in BagToSet(LeavesBelow(t.downlinks[n], sub)) :
                    SeqScanQual(l.key, scankeys))
                => \E j \in 1..Len(ic.nodes) :
                      /\ ic.nodes[j].nodeNumber = n - 1
                      /\ NoMatchPruned(t.downlinks[n],
                                       level + ic.nodes[j].levelAdd,
                                       ic.nodes[j].reconstructedValue,
                                       sub, scankeys)

\* C2: in every tree the insertions can build, for every indexed key that
\* satisfies all predicates of the query, inner_consistent returns the node
\* leading to the key's leaf at every inner tuple of the path from the root.
SearchComplete ==
    scan.via = "callback" =>
        NoMatchPruned(root, 0, NullDatum, <<>>, scan.scankeys)

\* a scan that went through two inner tuples at least, found rows and pruned
SearchCompleteWitness ==
    /\ scan.state = "done"
    /\ scan.via = "callback"
    /\ Len(tuples) >= 2
    /\ \E e \in BagToSet(scan.out) : Len(e.leafValue) = MaxKeyLen
    /\ BagCardinality(scan.out) < BagCardinality(heap)
    /\ \E k \in BagToSet(heap) : Len(k) < MaxKeyLen

\* what a predicate means for a full key
PredicateMeaning(full, key) ==
    LET q == key.sk_argument
    IN CASE key.predicate = "equal" -> full = q
         [] key.predicate = "prefix" ->
                Len(full) >= Len(q) /\ SubSeq(full, 1, Len(q)) = q
         [] key.predicate = "contains" ->
                /\ Len(full) = Len(q)
                /\ \A i \in 1..Len(q) :
                      BitAnd(iupac_code_to_bits(q[i]), nucleotide_to_bits(full[i])) # 0

\* the full key of a leaf_consistent call: parent context ++ residual
CallFullKey == call.in.reconstructedValue.data \o call.in.leafDatum

LeafConsistentReturned ==
    call.state = "returned" /\ call.fn = "spg_kmer_leaf_consistent"

\* the parent context begins with q for every prefix(q) predicate whose q is
\* not longer than the level
ContextAgreesWithPrefixKeys ==
    \A j \in 1..Len(call.in.scankeys) :
        LET key == call.in.scankeys[j]
        IN (key.predicate = "prefix" /\ call.in.level >= Len(key.sk_argument))
           => SubSeq(call.in.reconstructedValue.data, 1, Len(key.sk_argument))
                = key.sk_argument

ReconstructionInv ==
    LET leaves == LeavesBelow(root, <<>>)
    IN /\ \A l \in BagToSet(leaves) : l.key = l.heapPtr
       /\ \A k \in BagToSet(IndexedRows) :
             CopiesIn([heapPtr |-> k, key |-> k], leaves) = CopiesIn(k, IndexedRows)
       /\ BagCardinality(leaves) = BagCardinality(IndexedRows)

\* a tree three inner tuples deep in which a tuple was split, with a leaf
\* below a dummy label
ReconstructionInvWitness ==
    /\ ins.state = "idle"
    /\ Len(tuples) >= 3
    /\ \E t \in 1..Len(tuples) :
          /\ tuples[t].hasPrefix
          /\ \E n \in 1..Len(tuples[t].nodeLabels) :
                /\ tuples[t].nodeLabels[n] = -1
                /\ tuples[t].downlinks[n].leaves # <<>>
    /\ \E t \in 1..Len(tuples) : tuples[t].nodeLabels[1] = -2

\* the labels choose and picksplit are about to hand to the core in this
\* state keep the node array strictly ascending
CallbackLabelsAscending ==
    (ins.state = "descend") =>
        IF InsTarget.inner = 0
        THEN InsTarget.leaves # <<>> =>
                StrictlyAscending(
                    spg_kmer_picksplit(
                        [i \in 1..Len(InsTarget.leaves) |-> InsTarget.leaves[i].leafDatum]
                        \o <<ins.leafDatum>>).nodeLabels)
        ELSE LET out == spg_kmer_choose(ChooseIn(InsTarget.inner))
             IN out.resultType = "spgAddNode" =>
                   StrictlyAscending(InsertSeq(tuples[InsTarget.inner].nodeLabels,
                                               out.nodeN, out.nodeLabel))

\* C5 as stated: after any sequence of insertions the labels of every inner
\* tuple are strictly ascending, the add-node position of choose and the
\* label array of picksplit keeping them so.
LabelsStrictlyAscending ==
    /\ \A t \in 1..Len(tuples) : StrictlyAscending(tuples[t].nodeLabels)
    /\ CallbackLabelsAscending

\* C5, amended: the labels of every inner tuple that is not allTheSame are
\* strictly ascending and an allTheSame tuple carries one label in all its
\* nodes; the add-node position of choose and the label array of picksplit
\* keep the array strictly ascending.
LabelSortInv ==
    /\ \A t \in 1..Len(tuples) :
          IF tuples[t].allTheSame
          THEN \A n \in 1..Len(tuples[t].nodeLabels) :
                  tuples[t].nodeLabels[n] = tuples[t].nodeLabels[1]
          ELSE StrictlyAscending(tuples[t].nodeLabels)
    /\ CallbackLabelsAscending

\* a tuple that got a node added between others, next to an allTheSame tuple
LabelSortInvWitness ==
    /\ \E t \in 1..Len(tuples) :
          ~tuples[t].allTheSame /\ Len(tuples[t].nodeLabels) >= 3
    /\ \E t \in 1..Len(tuples) : tuples[t].allTheSame

\* C6 as stated: after any sequence of insertions no inner tuple carries
\* both dummy labels -1 and -2.
NoNodeCarriesBothSentinels ==
    \A t \in 1..Len(tuples) :
        \/ Occurrences(tuples[t].nodeLabels, -1) = 0
        \/ Occurrences(tuples[t].nodeLabels, -2) = 0

\* C6, amended: an inner tuple that is not allTheSame carries -1 at most
\* once and -2 at most once, -2 only as its first label, and an allTheSame
\* tuple never carries -2; one tuple may carry both -2 and -1.
SentinelInv ==
    \A t \in 1..Len(tuples) :
        LET labels == tuples[t].nodeLabels
        IN /\ ~tuples[t].allTheSame =>
                 Occurrences(labels, -1) <= 1 /\ Occurrences(labels, -2) <= 1
           /\ Occurrences(labels, -2) >= 1 =>
                 ~tuples[t].allTheSame /\ labels[1] = -2

\* the upper tuple of an allTheSame split that got the node -1 added
SentinelInvWitness ==
    \E t \in 1..Len(tuples) :
        /\ Occurrences(tuples[t].nodeLabels, -2) = 1
        /\ Occurrences(tuples[t].nodeLabels, -1) = 1
        /\ Len(tuples[t].nodeLabels) = 3

(***************************************************************************)
(* The operator class                                                      *)
(***************************************************************************)
\* C7: the strategy number under which the operator class registers each
\* operator is the one the consistent callbacks dispatch on, so a scan key
\* built from the operator class reaches the branch of its own predicate and
\* the scan raises no unrecognized-strategy error.
OpclassStrategiesDispatch ==
    scan.via = "opclass" =>
        /\ scan.state = "done"
        /\ \A j \in 1..Len(scan.scankeys) :
              /\ scan.scankeys[j].sk_strategy = CallbackStrategy(scan.scankeys[j].predicate)
              /\ StrategyBranch(scan.scankeys[j].sk_strategy) = scan.scankeys[j].predicate

(***************************************************************************)
(* Duplicates, equal and prefix queries                                    *)
(***************************************************************************)
\* the keys indexed more than once
DuplicateKeys ==
    {k \in BagToSet(IndexedRows) : CopiesIn(k, IndexedRows) >= 2}

\* every leaf spells the key of its row, every copy of a duplicate key has
\* its leaf, and an equal query for a duplicate key returns it once per copy
DuplicatesLocated ==
    LET leaves == LeavesBelow(root, <<>>)
    IN /\ \A l \in BagToSet(leaves) : l.key = l.heapPtr
       /\ \A k \in DuplicateKeys :
             CopiesIn([heapPtr |-> k, key |-> k], leaves) = CopiesIn(k, IndexedRows)
       /\ (/\ scan.via = "callback"
           /\ Len(scan.scankeys) = 1
           /\ scan.scankeys[1].predicate = "equal"
           /\ scan.scankeys[1].sk_argument \in DuplicateKeys)
          => /\ scan.state = "done"
             /\ BagToSet(scan.out) = {[heapPtr |-> scan.scankeys[1].sk_argument,
                                       leafValue |-> scan.scankeys[1].sk_argument]}
             /\ BagCardinality(scan.out) = CopiesIn(scan.scankeys[1].sk_argument, heap)

\* C8 as stated: once a key has been inserted again, the reconstruction
\* invariant and the label-sort invariant (strictly ascending labels) hold and
\* an equal query returns the key once per insertion.
DuplicateInsertKeepsInvariants ==
    DuplicateKeys # {} =>
        /\ DuplicatesLocated
        /\ \A t \in 1..Len(tuples) : StrictlyAscending(tuples[t].nodeLabels)

\* C8, amended: the same with the label-sort invariant as it holds: strictly
\* ascending labels in the tuples that are not allTheSame, one label in all
\* nodes of an allTheSame tuple.
DuplicateInsertInv ==
    DuplicateKeys # {} =>
        /\ DuplicatesLocated
        /\ \A t \in 1..Len(tuples) :
              \A n \in 1..(Len(tuples[t].nodeLabels) - 1) :
                  IF tuples[t].allTheSame
                  THEN tuples[t].nodeLabels[n] = tuples[t].nodeLabels[n + 1]
                  ELSE tuples[t].nodeLabels[n] < tuples[t].nodeLabels[n + 1]

\* an equal query for a key inserted three times, whose leaves sit below
\* different nodes of an allTheSame tuple, next to another key
DuplicateInsertInvWitness ==
    /\ scan.state = "done"
    /\ scan.via = "callback"
    /\ Len(scan.scankeys) = 1
    /\ scan.scankeys[1].predicate = "equal"
    /\ CopiesIn(scan.scankeys[1].sk_argument, heap) = 3
    /\ BagCardinality(scan.out) = 3
    /\ BagCardinality(heap) = 4
    /\ \E t \in 1..Len(tuples) : tuples[t].allTheSame

IsProperPrefix(a, b) == Len(a) < Len(b) /\ SubSeq(b, 1, Len(a)) = a

\* C9: after any sequence of insertions the query equal(K) returns K when K
\* was inserted and returns no key different from K, also when K is a proper
\* prefix of another indexed key or another indexed key is one of K.
EqualQueryReturnsKey ==
    (/\ scan.via = "callback"
     /\ Len(scan.scankeys) = 1
     /\ scan.scankeys[1].predicate = "equal")
    => LET K == scan.scankeys[1].sk_argument
       IN /\ scan.state = "done"
          /\ \A e \in BagToSet(scan.out) : e.leafValue = K /\ e.heapPtr = K
          /\ K \in BagToSet(heap) => scan.out # EmptyBag

\* equal(K) answered with K while a proper prefix of K and a key K is a
\* proper prefix of are indexed too
EqualQueryReturnsKeyWitness ==
    /\ scan.state = "done"
    /\ scan.via = "callback"
    /\ Len(scan.scankeys) = 1
    /\ scan.scankeys[1].predicate = "equal"
    /\ BagCardinality(scan.out) = 1
    /\ \E shorter, longer \in BagToSet(heap) :
          /\ IsProperPrefix(shorter, scan.scankeys[1].sk_argument)
          /\ IsProperPrefix(scan.scankeys[1].sk_argument, longer)

StrategyNumbers ==
    {KMER_EQUAL_STRATEGY, KMER_PREFIX_STRATEGY, KMER_CONTAINS_STRATEGY}
    \cup {spgist_kmer_ops(p) : p \in Predicates}

\* scan keys with a kmer argument, and with a qkmer argument where the
\* number is not that of a kmer operator of the callbacks
StrategyKeys ==
    {[sk_strategy |-> n, sk_argument |-> a, predicate |-> "any"] :
        n \in StrategyNumbers,
        a \in {x \in Keys \cup Patterns : Len(x) <= MaxConjArgLen}}
    \ {k \in [sk_strategy : {KMER_EQUAL_STRATEGY, KMER_PREFIX_STRATEGY},
               sk_argument : Patterns, predicate : {"any"}] :
          k.sk_argument \notin Keys}

StrategyKeyLists ==
    {<<k>> : k \in StrategyKeys} \cup {<<k1, k2>> : k1, k2 \in StrategyKeys}

\* node label arrays as insertions leave them: ascending, or the copies of
\* one label of an allTheSame tuple
StrategyNodeLabels ==
    {<<-1>>, <<65>>, <<-1, 65>>, <<65, 67>>, <<-2, 65>>, <<-1, 65, 67>>,
     <<-2, -1, 65>>, <<-2, -1, 65, 67>>, <<-1, -1>>}

InnerConsistentIn(sk, rv, hp, pd, nl) ==
    [scankeys |-> sk, reconstructedValue |-> rv, level |-> Len(rv.data),
     hasPrefix |-> hp, prefixDatum |-> pd, nodeLabels |-> nl]

StrategyInit ==
    /\ tuples = <<>>
    /\ root = NoDownlink
    /\ heap = EmptyBag
    /\ ins = InsIdle
    /\ scan = ScanIdle
    /\ \E sk \in StrategyKeyLists :
          \/ \E rv \in ReconstructedValues, ld \in Keys :
                call = [state |-> "called", fn |-> "spg_kmer_leaf_consistent",
                        in |-> LeafConsistentIn(sk, rv, ld)]
          \/ \E rv \in {NullDatum, [isNull |-> FALSE, data |-> <<65>>]},
                pd \in {<<>>, <<65>>, <<67>>},
                nl \in StrategyNodeLabels :
                call = [state |-> "called", fn |-> "spg_kmer_inner_consistent",
                        in |-> InnerConsistentIn(sk, rv, pd # <<>>, pd, nl)]

InnerConsistentCall ==
    /\ call.state = "called"
    /\ call.fn = "spg_kmer_inner_consistent"
    /\ call' = [state |-> "returned", fn |-> call.fn, in |-> call.in,
                out |-> spg_kmer_inner_consistent(call.in)]
    /\ UNCHANGED <<tuples, root, heap, ins, scan>>

StrategyNext ==
    \/ LeafConsistentCall
    \/ InnerConsistentCall

StrategySpec == StrategyInit /\ [][StrategyNext]_vars

(***************************************************************************)
(* picksplit called on its own: PickSplitSpec makes one call with a batch  *)
(* of one to MaxBatch leaf datums.                                         *)
(***************************************************************************)
MaxBatch == 3            \* most leaf datums handed to one picksplit call

\* the batches of n leaf datums
PickSplitBatches(n) == [1..n -> Keys]

PickSplitInit ==
    /\ tuples = <<>>
    /\ root = NoDownlink
    /\ heap = EmptyBag
    /\ ins = InsIdle
    /\ scan = ScanIdle
    /\ \E n \in 1..MaxBatch : \E datums \in PickSplitBatches(n) :
          call = [state |-> "called", fn |-> "spg_kmer_picksplit",
                  in |-> [datums |-> datums]]

PickSplitCall ==
    /\ call.state = "called"
    /\ call.fn = "spg_kmer_picksplit"
    /\ call' = [state |-> "returned", fn |-> call.fn, in |-> call.in,
                out |-> spg_kmer_picksplit(call.in.datums)]
    /\ UNCHANGED <<tuples, root, heap, ins, scan>>

PickSplitNext == PickSplitCall

PickSplitSpec == PickSplitInit /\ [][PickSplitNext]_vars

(***************************************************************************)
(* The SQL functions called on their own: SqlSpec makes one call, with     *)
(* arguments drawn from the values of the argument types.                  *)
(***************************************************************************)
MaxSqlLen == 2           \* longest qkmer and kmer handed to contains()
MaxDnaLen == 3           \* longest of the short dna sequences

\* the letters of a qkmer: A C G T R Y S W K M B D H V N
IupacLetters == {65, 67, 71, 84, 82, 89, 83, 87, 75, 77, 66, 68, 72, 86, 78}

\* the letters of a kmer
NucleotideLetters == {65, 67, 71, 84}

SqlQkmers == UNION {[1..n -> IupacLetters] : n \in 0..MaxSqlLen}

SqlKmers == UNION {[1..n -> NucleotideLetters] : n \in 0..MaxSqlLen}

\* strings handed to kmer_in and to the cast from text: short ones over
\* A, T, c and X, and ones of KMER_SIZE and KMER_SIZE + 1 letters
SqlStrings ==
    UNION {[1..n -> {65, 84, 99, 88}] : n \in 0..MaxSqlLen}
    \cup {[i \in 1..n |-> c] : n \in {KMER_SIZE, KMER_SIZE + 1}, c \in {65, 99}}

\* the sequences and the k of the generate_kmers tests: GTAGAGCTGT with
\* k = 6, ATCGATCAC with k = 3
TestDna1 == <<71, 84, 65, 71, 65, 71, 67, 84, 71, 84>>
TestDna2 == <<65, 84, 67, 71, 65, 84, 67, 65, 67>>
TestK1 == 6

\* dna_sequence values, as dna_in stores them (upper case): short ones, and
\* ones of KMER_SIZE + 1 and KMER_SIZE + 2 letters
SqlDnaSequences ==
    UNION {[1..n -> NucleotideLetters] : n \in 0..MaxDnaLen}
    \cup {[i \in 1..n |-> IF i % 2 = 0 THEN 67 ELSE 65] :
             n \in {KMER_SIZE + 1, KMER_SIZE + 2}}
    \cup {TestDna1, TestDna2}

\* the k handed to generate_kmers
SqlKs == -1..(MaxDnaLen + 1) \cup {TestK1, KMER_SIZE, KMER_SIZE + 1}

SqlInit ==
    /\ tuples = <<>>
    /\ root = NoDownlink
    /\ heap = EmptyBag
    /\ ins = InsIdle
    /\ scan = ScanIdle
    /\ \/ \E pattern \in SqlQkmers, kmer \in SqlKmers :
             call = [state |-> "called", fn |-> "contains_qkmer_kmer",
                     in |-> [pattern |-> pattern, kmer |-> kmer]]
       \/ \E fn \in {"kmer_in", "kmer_cast_text"}, str \in SqlStrings :
             call = [state |-> "called", fn |-> fn, in |-> str]
       \/ \E dna \in SqlDnaSequences, k \in SqlKs :
             call = [state |-> "called", fn |-> "generate_kmers",
                     in |-> [dna |-> dna, k |-> k]]

ContainsCall ==
    /\ call.state = "called"
    /\ call.fn = "contains_qkmer_kmer"
    /\ call' = [state |-> "returned", fn |-> call.fn, in |-> call.in,
                out |-> contains_qkmer_kmer(call.in.pattern, call.in.kmer)]
    /\ UNCHANGED <<tuples, root, heap, ins, scan>>

KmerInCall ==
    /\ call.state = "called"
    /\ call.fn = "kmer_in"
    /\ call' = [state |-> "returned", fn |-> call.fn, in |-> call.in,
                out |-> kmer_in(call.in)]
    /\ UNCHANGED <<tuples, root, heap, ins, scan>>

KmerCastTextCall ==
    /\ call.state = "called"
    /\ call.fn = "kmer_cast_text"
    /\ call' = [state |-> "returned", fn |-> call.fn, in |-> call.in,
                out |-> kmer_cast_text(call.in)]
    /\ UNCHANGED <<tuples, root, heap, ins, scan>>

\* one call of the set-returning function: the first call sets the context
\* up; every call returns the next kmer (state "next") or ends the set
GenerateKmersCall ==
    /\ call.fn = "generate_kmers"
    /\ call.state \in {"called", "next"}
    /\ LET first == generateKmersFirstCall(call.in.dna, call.in.k)
           funcctx == IF call.state = "called" THEN first ELSE call.funcctx
       IN IF funcctx.error
          THEN call' = [state |-> "returned", fn |-> call.fn, in |-> call.in,
                        funcctx |-> funcctx,
                        out |-> [error |-> TRUE, value |-> <<>>], returned |-> <<>>]
          ELSE LET r == generateKmersPerCall(funcctx)
                   sofar == IF call.state = "called" THEN <<>> ELSE call.returned
               IN call' = [state |-> IF r.done THEN "returned" ELSE "next",
                           fn |-> call.fn, in |-> call.in,
                           funcctx |-> [funcctx EXCEPT !.call_cntr = @ + (IF r.done THEN 0 ELSE 1)],
                           out |-> [error |-> FALSE, value |-> r.result],
                           returned |-> IF r.done THEN sofar
                                        ELSE Append(sofar, r.result)]
    /\ UNCHANGED <<tuples, root, heap, ins, scan>>

SqlNext ==
    \/ ContainsCall
    \/ KmerInCall
    \/ KmerCastTextCall
    \/ GenerateKmersCall

SqlSpec == SqlInit /\ [][SqlNext]_vars

(***************************************************************************)
(* Scenario S4: the keys ACGTA, ACCTA, TCGTA, each inserted once in any    *)
(* order, and scans with a few queries at any time between insertions.     *)
(***************************************************************************)
S4Keys == {<<65, 67, 71, 84, 65>>, <<65, 67, 67, 84, 65>>, <<84, 67, 71, 84, 65>>}

\* iupac_contains('ANGTA')
S4Query ==
    <<[sk_strategy |-> KMER_CONTAINS_STRATEGY,
       sk_argument |-> <<65, 78, 71, 84, 65>>, predicate |-> "contains"]>>

\* S4Query, then iupac_contains of 'ANGT', 'NNNNN', 'ARGTA' and 'NCNTA',
\* prefix of 'AC', 'ACG' and 'T', equal of 'TCGTA' and 'ACCTA', and
\* prefix('AC') with iupac_contains('ANGTA')
S4Queries ==
    {S4Query,
     <<[sk_strategy |-> KMER_CONTAINS_STRATEGY,
        sk_argument |-> <<65, 78, 71, 84>>, predicate |-> "contains"]>>,
     <<[sk_strategy |-> KMER_CONTAINS_STRATEGY,
        sk_argument |-> <<78, 78, 78, 78, 78>>, predicate |-> "contains"]>>,
     <<[sk_strategy |-> KMER_CONTAINS_STRATEGY,
        sk_argument |-> <<65, 82, 71, 84, 65>>, predicate |-> "contains"]>>,
     <<[sk_strategy |-> KMER_CONTAINS_STRATEGY,
        sk_argument |-> <<78, 67, 78, 84, 65>>, predicate |-> "contains"]>>,
     <<[sk_strategy |-> KMER_PREFIX_STRATEGY,
        sk_argument |-> <<65, 67>>, predicate |-> "prefix"]>>,
     <<[sk_strategy |-> KMER_PREFIX_STRATEGY,
        sk_argument |-> <<65, 67, 71>>, predicate |-> "prefix"]>>,
     <<[sk_strategy |-> KMER_PREFIX_STRATEGY,
        sk_argument |-> <<84>>, predicate |-> "prefix"]>>,
     <<[sk_strategy |-> KMER_EQUAL_STRATEGY,
        sk_argument |-> <<84, 67, 71, 84, 65>>, predicate |-> "equal"]>>,
     <<[sk_strategy |-> KMER_EQUAL_STRATEGY,
        sk_argument |-> <<65, 67, 67, 84, 65>>, predicate |-> "equal"]>>,
     <<[sk_strategy |-> KMER_PREFIX_STRATEGY,
        sk_argument |-> <<65, 67>>, predicate |-> "prefix"]>> \o S4Query}

S4InsertBegin == \E k \in S4Keys : ~BagIn(k, heap) /\ InsertBegin(k)

S4Scan == \E scankeys \in S4Queries : RunScan("callback", scankeys)

S4Next ==
    \/ S4InsertBegin
    \/ InsertAddLeaf
    \/ InsertPickSplit
    \/ InsertMatchNode
    \/ InsertAddNode
    \/ InsertSplitTuple
    \/ S4Scan
    \/ ScanEnd

S4Spec == Init /\ [][S4Next]_vars

\* the rows a finished scan with S4Query returned, as a set and their number
S4Answer(keys, n) ==
    (scan.state # "idle" /\ scan.scankeys = S4Query /\ BagToSet(heap) = S4Keys)
    => /\ scan.state = "done"
       /\ BagToSet(scan.out) = {[heapPtr |-> k, leafValue |-> k] : k \in keys}
       /\ BagCardinality(scan.out) = n

\* C12 as stated: once ACGTA, ACCTA and TCGTA are inserted, the query
\* iupac_contains('ANGTA') returns exactly ACGTA and TCGTA.
S4ResultAsStated ==
    S4Answer({<<65, 67, 71, 84, 65>>, <<84, 67, 71, 84, 65>>}, 2)

\* C12: once ACGTA, ACCTA and TCGTA are inserted, in whatever order, the
\* query iupac_contains('ANGTA') returns exactly ACGTA, once: the pattern's
\* first letter A excludes TCGTA and its third letter G excludes ACCTA.
S4Result ==
    S4Answer({<<65, 67, 71, 84, 65>>}, 1)

\* the query answered over the three keys held by a tree of two inner tuples
S4ResultWitness ==
    /\ scan.state = "done"
    /\ scan.scankeys = S4Query
    /\ BagToSet(heap) = S4Keys
    /\ BagCardinality(scan.out) = 1
    /\ Len(tuples) >= 2

\* the nucleotides an IUPAC letter stands for in the nomenclature
IupacDenotes(p) ==
    CASE p = 65 -> {65}                   \* A
      [] p = 67 -> {67}                   \* C
      [] p = 71 -> {71}                   \* G
      [] p = 84 -> {84}                   \* T
      [] p = 82 -> {65, 71}               \* R: purine, A or G
      [] p = 89 -> {67, 84}               \* Y: pyrimidine, C or T
      [] p = 83 -> {67, 71}               \* S: strong, C or G
      [] p = 87 -> {65, 84}               \* W: weak, A or T
      [] p = 75 -> {71, 84}               \* K: keto, G or T
      [] p = 77 -> {65, 67}               \* M: amino, A or C
      [] p = 66 -> {67, 71, 84}           \* B: not A
      [] p = 68 -> {65, 71, 84}           \* D: not C
      [] p = 72 -> {65, 67, 84}           \* H: not G
      [] p = 86 -> {65, 67, 71}           \* V: not T
      [] p = 78 -> {65, 67, 71, 84}       \* N: any

\* C13: for each of the 15 IUPAC letters p and each nucleotide k, a pattern
\* made of p matches the kmer made of k exactly when k is in the set p
\* denotes; and p matches all four nucleotides iff p is N.
IupacAlgebra ==
    /\ (/\ call.state = "returned"
        /\ call.fn = "contains_qkmer_kmer"
        /\ Len(call.in.pattern) = 1
        /\ Len(call.in.kmer) = 1)
       => /\ call.out \in {"true", "false"}
          /\ call.out = "true" <=> call.in.kmer[1] \in IupacDenotes(call.in.pattern[1])
    /\ \A p \in IupacLetters :
          (\A k \in NucleotideLetters : contains_qkmer_kmer(<<p>>, <<k>>) = "true")
          <=> p = 78

\* K matched against T, which K denotes and M does not
IupacAlgebraWitness ==
    /\ call.state = "returned"
    /\ call.fn = "contains_qkmer_kmer"
    /\ call.in.pattern = <<75>>
    /\ call.in.kmer = <<84>>
    /\ call.out = "true"

\* every leaf tuple a traversal with scankeys reaches below downlink d, with
\* what leaf_consistent was given for it and what it handed back
RECURSIVE LeavesReached(_, _, _, _)
LeavesReached(d, level, recon, scankeys) ==
    IF d.inner = 0
    THEN {[heapPtr |-> d.leaves[i].heapPtr,
           context |-> recon.data,
           residual |-> d.leaves[i].leafDatum,
           level |-> level,
           out |-> spg_kmer_leaf_consistent([scankeys |-> scankeys,
                                             reconstructedValue |-> recon,
                                             level |-> level,
                                             leafDatum |-> d.leaves[i].leafDatum])] :
             i \in 1..Len(d.leaves)}
    ELSE LET t == tuples[d.inner]
             ic == spg_kmer_inner_consistent([scankeys |-> scankeys,
                                              reconstructedValue |-> recon,
                                              level |-> level,
                                              hasPrefix |-> t.hasPrefix,
                                              prefixDatum |-> t.prefixDatum,
                                              nodeLabels |-> t.nodeLabels])
         IN UNION {LeavesReached(t.downlinks[ic.nodes[j].nodeNumber + 1],
                                 level + ic.nodes[j].levelAdd,
                                 ic.nodes[j].reconstructedValue,
                                 scankeys) : j \in 1..Len(ic.nodes)}

\* C14: for every leaf tuple a traversal reaches, whether or not the leaf
\* satisfies the query, the leafValue that leaf_consistent hands back is the
\* key that was inserted for the leaf: the context reconstructed on the way
\* down followed by the residual stored in the leaf.
LeafValueIsInsertedKey ==
    scan.state = "done" =>
        \A l \in LeavesReached(root, 0, NullDatum, scan.scankeys) :
            /\ l.out.leafValue = l.heapPtr
            /\ l.out.leafValue = l.context \o l.residual
            /\ Len(l.context) = l.level

\* a traversal that reached, below an inner tuple, a leaf with a residual
\* that satisfies the query and a leaf that does not
LeafValueIsInsertedKeyWitness ==
    /\ scan.state = "done"
    /\ \E l, m \in LeavesReached(root, 0, NullDatum, scan.scankeys) :
          /\ l.out.res /\ l.level > 0 /\ Len(l.residual) > 0
          /\ ~m.out.res /\ m.level > 0

\* the decision of the single-level insertion state machine for an inner
\* tuple and a key at a level
MachineDecision(in) ==
    LET remainder == Suffix(in.datum, in.level)
        prefix == IF in.hasPrefix THEN in.prefixDatum ELSE <<>>
        begins == /\ Len(remainder) >= Len(prefix)
                  /\ SubSeq(remainder, 1, Len(prefix)) = prefix
        next == IF Len(remainder) > Len(prefix)
                THEN remainder[Len(prefix) + 1] ELSE -1
    IN IF ~begins THEN "split-upward, prefix divergence"
       ELSE IF \E i \in 1..Len(in.nodeLabels) : in.nodeLabels[i] = next
       THEN "descend"
       ELSE IF in.allTheSame THEN "split-upward, all-the-same"
       ELSE "add-new-child"

\* what choose returned, in the state machine's words
ChooseDecision(out) ==
    CASE out.resultType = "spgMatchNode" -> "descend"
      [] out.resultType = "spgAddNode" -> "add-new-child"
      [] out.resultType = "spgSplitTuple" /\ out.prefixNodeLabels = <<-2>> ->
             "split-upward, all-the-same"
      [] OTHER -> "split-upward, prefix divergence"

\* C15: for every inner tuple an insertion arrives at and the key it
\* carries, choose returns the state machine's decision: a prefix-divergence
\* split iff the key's remainder does not begin with the whole prefix,
\* otherwise a descent iff the next byte (-1 for an empty remainder) is among
\* the labels, otherwise an all-the-same split with the sole label -2 iff the
\* tuple is all-the-same, otherwise a new child.
ChooseIsStateMachine ==
    (ins.state = "descend" /\ InsTarget.inner # 0) =>
        LET in == ChooseIn(InsTarget.inner)
        IN ChooseDecision(spg_kmer_choose(in)) = MachineDecision(in)

\* an insertion at an all-the-same tuple whose labels do not hold the key's
\* next byte
ChooseIsStateMachineWitness ==
    /\ ins.state = "descend"
    /\ InsTarget.inner # 0
    /\ LET in == ChooseIn(InsTarget.inner)
       IN /\ in.allTheSame
          /\ spg_kmer_choose(in).resultType = "spgSplitTuple"
          /\ spg_kmer_choose(in).prefixNodeLabels = <<-2>>

\* choose is about to be called, or called again, for the insertion's key on
\* the inner tuple the insertion is at, and returns resultType
ChooseReturns(resultType) ==
    /\ ins.state = "descend"
    /\ InsTarget.inner # 0
    /\ spg_kmer_choose(ChooseIn(InsTarget.inner)).resultType = resultType

\* C16: when choose returns spgSplitTuple, of either variant, and the core
\* has put the upper tuple in the place of the old one, choose called again
\* for the same key at the same level on the upper tuple returns spgAddNode,
\* not spgMatchNode and not spgSplitTuple again.
ReissuedChooseAddsNode ==
    [][ChooseReturns("spgSplitTuple") =>
          /\ ins' = ins
          /\ ChooseReturns("spgAddNode")']_vars

\* the insertion is at an upper tuple a prefix-divergence split has just
\* installed: one node, labelled with a byte of the old prefix, over the
\* postfix tuple
ReissuedChooseAddsNodeWitness ==
    /\ ChooseReturns("spgAddNode")
    /\ LET t == tuples[InsTarget.inner]
       IN /\ ~t.allTheSame
          /\ Len(t.nodeLabels) = 1
          /\ t.nodeLabels[1] >= 0
          /\ t.downlinks[1].inner = Len(tuples)

\* the length of the longest prefix all keys of a batch share
BatchCommonLen(datums) ==
    LET shared(n) == \A i \in 1..Len(datums) :
                        /\ Len(datums[i]) >= n
                        /\ SubSeq(datums[i], 1, n) = SubSeq(datums[1], 1, n)
    IN CHOOSE n \in 0..Len(datums[1]) :
          shared(n) /\ \A m \in (n + 1)..Len(datums[1]) : ~shared(m)

\* the discriminator of a key in its batch: the byte after the batch's common
\* prefix, -1 when the key is the common prefix
Discriminator(datums, i) ==
    LET n == BatchCommonLen(datums)
    IN IF Len(datums[i]) > n THEN datums[i][n + 1] ELSE -1

\* C17: for every non-empty batch, picksplit emits at least two nodes when
\* two keys of the batch have distinct discriminators, and exactly one node
\* when all keys of the batch are identical.
PickSplitContract ==
    (call.state = "returned" /\ call.fn = "spg_kmer_picksplit") =>
        LET datums == call.in.datums
            I == 1..Len(datums)
        IN /\ (\E i, j \in I : Discriminator(datums, i) # Discriminator(datums, j))
                 => call.out.nNodes >= 2
           /\ (\A i, j \in I : datums[i] = datums[j]) => call.out.nNodes = 1

\* a batch of three keys with a common prefix, two of them identical and
\* ending at the prefix, split into two nodes
PickSplitContractWitness ==
    /\ call.state = "returned"
    /\ call.fn = "spg_kmer_picksplit"
    /\ Len(call.in.datums) = 3
    /\ call.in.datums[1] = call.in.datums[2]
    /\ call.in.datums[3] # call.in.datums[1]
    /\ call.out.hasPrefix
    /\ call.out.nNodes = 2
    /\ call.out.nodeLabels[1] = -1

\* the terms of SPGIST_MAX_PREFIX_LENGTH: the most nodes of an inner tuple,
\* the bytes of a node and the bytes of the tuple's and page's bookkeeping
MaxNodeSlots == 258
NodeSlotSize == 16
TupleOverhead == 100

\* the bytes of inner tuple t by that account
SerializedSize(t) ==
    TupleOverhead + Len(tuples[t].prefixDatum) + NodeSlotSize * Len(tuples[t].nodeLabels)

\* the prefix, the number of nodes, the range of the labels and the size of
\* inner tuple t are within the limits
WithinPage(t) ==
    /\ Len(tuples[t].prefixDatum)
          <= Max2(BLCKSZ - MaxNodeSlots * NodeSlotSize - TupleOverhead, KMER_SIZE)
    /\ Len(tuples[t].prefixDatum) <= MaxKeyLen
    /\ Len(tuples[t].nodeLabels) <= MaxNodeSlots
    /\ \A n \in 1..Len(tuples[t].nodeLabels) : tuples[t].nodeLabels[n] \in -2..255
    /\ SerializedSize(t) <= BLCKSZ

DistinctLabels(t) ==
    \A n, m \in 1..Len(tuples[t].nodeLabels) :
        n # m => tuples[t].nodeLabels[n] # tuples[t].nodeLabels[m]

\* the largest inner tuple the limits allow fits the page, and the longest
\* kmer may be a prefix
LimitsFitPage ==
    /\ TupleOverhead + SPGIST_MAX_PREFIX_LENGTH + NodeSlotSize * MaxNodeSlots <= BLCKSZ
    /\ KMER_SIZE <= SPGIST_MAX_PREFIX_LENGTH

StrategyCallReturned ==
    /\ call.state = "returned"
    /\ call.fn \in {"spg_kmer_leaf_consistent", "spg_kmer_inner_consistent"}

Unrecognized(key) ==
    key.sk_strategy \notin {KMER_EQUAL_STRATEGY, KMER_PREFIX_STRATEGY,
                            KMER_CONTAINS_STRATEGY}

\* the verdict of scan key j of the call, taken alone, is positive: for the
\* leaf, or for node i (counted from 0) of the inner tuple
PassesAlone(j, i) ==
    LET alone == [call.in EXCEPT !.scankeys = <<call.in.scankeys[j]>>]
    IN IF call.fn = "spg_kmer_leaf_consistent"
       THEN spg_kmer_leaf_consistent(alone).res
       ELSE \E n \in 1..Len(spg_kmer_inner_consistent(alone).nodes) :
               spg_kmer_inner_consistent(alone).nodes[n].nodeNumber = i

\* the nodes of the call: those of the inner tuple, one for a leaf
CallNodes ==
    IF call.fn = "spg_kmer_leaf_consistent" THEN {0}
    ELSE 0..(Len(call.in.nodeLabels) - 1)

\* the evaluation of the scan keys reaches key j: for some node, all keys
\* before j are recognized and have a positive verdict
Reached(j) ==
    \E i \in CallNodes :
        \A b \in 1..(j - 1) :
            ~Unrecognized(call.in.scankeys[b]) /\ PassesAlone(b, i)

\* C19 as stated: a call of inner_consistent or leaf_consistent whose scan
\* keys contain a strategy number other than 1, 2 and 3 fails with the
\* unrecognized-strategy error, wherever that key is in the list and whatever
\* the verdicts of the other keys.
UnrecognizedStrategyAlwaysFails ==
    StrategyCallReturned =>
        ((\E j \in 1..Len(call.in.scankeys) : Unrecognized(call.in.scankeys[j]))
            => call.out.error)

\* C19, amended: such a call fails with the unrecognized-strategy error
\* exactly when the evaluation reaches the key with that number: when every
\* key before it in the list has a positive verdict, on the leaf for
\* leaf_consistent, on at least one node for inner_consistent.  A key after
\* one that fails (on every node) is not looked at.
UnrecognizedStrategyFailsWhenReached ==
    StrategyCallReturned =>
        (call.out.error <=>
            \E j \in 1..Len(call.in.scankeys) :
                Unrecognized(call.in.scankeys[j]) /\ Reached(j))

\* an inner_consistent call on a tuple of three nodes that fails on its
\* second key, the first key having passed for one node only
UnrecognizedStrategyFailsWhenReachedWitness ==
    /\ StrategyCallReturned
    /\ call.fn = "spg_kmer_inner_consistent"
    /\ Len(call.in.nodeLabels) = 3
    /\ Len(call.in.scankeys) = 2
    /\ ~Unrecognized(call.in.scankeys[1])
    /\ Unrecognized(call.in.scankeys[2])
    /\ Cardinality({i \in CallNodes : PassesAlone(1, i)}) = 1
    /\ call.out.error

\* a kmer in canonical form: upper-case A, C, G, T, at most KMER_SIZE long
Canonical(kmer) ==
    /\ \A i \in 1..Len(kmer) : kmer[i] \in {65, 67, 71, 84}
    /\ Len(kmer) <= KMER_SIZE

\* a call of fn has just handed back a kmer
KmerConstructedBy(fn) ==
    /\ call.fn = fn
    /\ \/ call.state = "returned" /\ fn # "generate_kmers"
       \/ call.state = "next"
    /\ ~call.out.error

\* C20: every kmer that kmer_in, the cast from text or generate_kmers hands
\* back consists of the upper-case bytes A, C, G, T only and is at most 32
\* bytes long.
ConstructedKmersCanonical ==
    \A fn \in {"kmer_in", "kmer_cast_text", "generate_kmers"} :
        KmerConstructedBy(fn) => Canonical(call.out.value)

\* the part of C20 that holds: the kmers of kmer_in are canonical
KmerInCanonical ==
    KmerConstructedBy("kmer_in") => Canonical(call.out.value)

\* the cast from text hands back lower-case bytes
CastKeepsLowerCase ==
    /\ KmerConstructedBy("kmer_cast_text")
    /\ \E i \in 1..Len(call.out.value) : call.out.value[i] = 99

\* generate_kmers hands back a kmer longer than KMER_SIZE
GeneratedKmerTooLong ==
    /\ KmerConstructedBy("generate_kmers")
    /\ Len(call.out.value) > KMER_SIZE

(***************************************************************************)
(* Scenario S6: ACGT, ACGA, TTTT inserted in this order into an empty      *)
(* tree, with scans in between.  How many leaf tuples a page holds is the  *)
(* core's matter: a chain may take a tuple while it has fewer than         *)
(* S6LeafCap, and may be split as soon as it has one.                      *)
(***************************************************************************)
S6LeafCap == 3           \* leaf tuples a chain can ever hold in the scenario

S6Order == <<<<65, 67, 71, 84>>, <<65, 67, 71, 65>>, <<84, 84, 84, 84>>>>

S6Queries ==
    {<<[sk_strategy |-> CallbackStrategy(p), sk_argument |-> a, predicate |-> p]>> :
        p \in {"equal", "prefix"},
        a \in {S6Order[1], S6Order[2], S6Order[3], <<>>, <<65, 67>>, <<84>>}}
    \cup
    {<<[sk_strategy |-> KMER_CONTAINS_STRATEGY, sk_argument |-> a,
        predicate |-> "contains"]>> :
        a \in {<<65, 67, 71, 78>>, <<78, 78, 78, 78>>, <<89, 89, 89, 89>>}}

S6InsertBegin ==
    /\ BagCardinality(heap) < Len(S6Order)
    /\ InsertBegin(S6Order[BagCardinality(heap) + 1])

\* the leaf page has room: the new leaf tuple joins the chain
S6InsertAddLeaf ==
    /\ ins.state = "descend"
    /\ InsTarget.inner = 0
    /\ Len(InsTarget.leaves) < S6LeafCap
    /\ LET d == [inner |-> 0,
                 leaves |-> Append(InsTarget.leaves,
                                   [leafDatum |-> ins.leafDatum, heapPtr |-> ins.datum])]
       IN /\ tuples' = TuplesWithTarget(tuples, d)
          /\ root' = RootWithTarget(d)
    /\ ins' = InsIdle
    /\ UNCHANGED <<heap, scan, call>>

S6Scan == \E scankeys \in S6Queries : RunScan("callback", scankeys)

S6Next ==
    \/ S6InsertBegin
    \/ S6InsertAddLeaf
    \/ InsertPickSplit
    \/ InsertMatchNode
    \/ InsertAddNode
    \/ InsertSplitTuple
    \/ S6Scan
    \/ ScanEnd

S6Spec == Init /\ [][S6Next]_vars

\* the three keys are in the tree
S6Inserted == ins.state = "idle" /\ BagCardinality(heap) = Len(S6Order)

\* every leaf chain of the tree holds at most one leaf tuple
OneKeyPerLeaf ==
    /\ Len(root.leaves) <= 1
    /\ \A t \in 1..Len(tuples) : \A n \in 1..Len(tuples[t].downlinks) :
          Len(tuples[t].downlinks[n].leaves) <= 1

\* the root has nodes labelled 'A' and 'T', and the inner tuple below its
\* 'A' node has nodes labelled 'T' and 'A'
S6Shape ==
    /\ root.inner # 0
    /\ LET r == tuples[root.inner]
       IN /\ Len(r.nodeLabels) >= 2
          /\ \E a, b \in 1..Len(r.nodeLabels) :
                /\ r.nodeLabels[a] = 65
                /\ r.nodeLabels[b] = 84
                /\ r.downlinks[a].inner # 0
                /\ LET sub == tuples[r.downlinks[a].inner].nodeLabels
                   IN \E x, y \in 1..Len(sub) : sub[x] = 84 /\ sub[y] = 65

\* reconstruction, label order and page fit of the scenario's tree
S6Invariants ==
    /\ ReconstructionInv
    /\ LabelSortInv
    /\ \A t \in 1..Len(tuples) :
          /\ Len(tuples[t].prefixDatum) <= SPGIST_MAX_PREFIX_LENGTH
          /\ Len(tuples[t].nodeLabels) <= MaxNodeSlots
          /\ SerializedSize(t) <= BLCKSZ

\* C21 as stated: after ACGT, ACGA, TTTT are inserted in this order into an
\* empty tree, the root has nodes for 'A' and 'T' and the inner tuple of the
\* 'A' subtree has nodes for 'T' and 'A', the reconstruction, label-sort and
\* single-page invariants holding.
S6ShapeAlways ==
    /\ S6Invariants
    /\ S6Inserted => S6Shape

\* C21, amended: the same, for a core that splits a leaf as soon as a second
\* key arrives in it, so that every leaf holds one key; the invariants hold
\* whatever the core does.
S6ShapeOneKeyPerLeaf ==
    /\ S6Invariants
    /\ (S6Inserted /\ OneKeyPerLeaf) => S6Shape

\* the three keys inserted one key per leaf: the root without prefix over
\* 'A' and 'T', the tuple below 'A' with the prefix CG
S6ShapeOneKeyPerLeafWitness ==
    /\ S6Inserted
    /\ OneKeyPerLeaf
    /\ S6Shape
    /\ ~tuples[root.inner].hasPrefix
    /\ \E t \in 1..Len(tuples) : tuples[t].prefixDatum = <<67, 71>>

(***************************************************************************)
(* C22: generate_kmers(dna, k) with 1 <= k <= length(dna) yields exactly   *)
(* length(dna) - k + 1 kmers over its successive calls, the i-th call      *)
(* (from 0) returning dna[i .. i + k - 1], left to right; it then signals  *)
(* completion and yields nothing further.                                  *)
(***************************************************************************)
\* the window of k letters of dna that starts at the 0-based position i
Window(dna, i, k) == [j \in 1..k |-> dna[i + j]]

GenerateKmersRejectsLongK ==
    (/\ call.fn = "generate_kmers"
     /\ call.state \in {"next", "returned"}
     /\ call.in.k > KMER_SIZE)
    => /\ call.out.error
       /\ call.returned = <<>>

\* what the code does instead: the call with k = KMER_SIZE + 1 on a sequence
\* of at least as many letters has ended without error, kmers handed back
GenerateKmersLongKAccepted ==
    /\ call.fn = "generate_kmers"
    /\ call.state = "returned"
    /\ call.in.k = KMER_SIZE + 1
    /\ ~call.out.error
    /\ Len(call.returned) >= 1
    /\ \A i \in 1..Len(call.returned) : Len(call.returned[i]) = KMER_SIZE + 1

(***************************************************************************)
(* C24: for every inner node, child slot and predicate list,               *)
(* inner_consistent returns the slot iff every predicate, taken alone,     *)
(* remains possible for the slot's partial key (context, then prefix, then *)
(* the label byte when the label is a byte), L bytes long:                 *)
(*   equal(q): L <= len(q) and the partial key is q[0..L);                 *)
(*   prefix(q): partial key and q agree on their first min(L, len(q))      *)
(*              bytes;                                                     *)
(*   iupac_contains(p): L <= len(p) and p[i] matches the partial key's     *)
(*              byte i for all i < L.                                      *)
(***************************************************************************)
\* the partial key of node i (from 0) of the inner tuple of the call
PartialKey(in, i) ==
    in.reconstructedValue.data
    \o (IF in.hasPrefix THEN in.prefixDatum ELSE <<>>)
    \o (IF in.nodeLabels[i + 1] > 0 THEN <<in.nodeLabels[i + 1]>> ELSE <<>>)

\* the IUPAC letter p admits the nucleotide b
PatternMatches(p, b) == p \in IupacLetters /\ b \in IupacDenotes(p)

RemainsPossible(key, partial) ==
    LET L == Len(partial)
        q == key.sk_argument
    IN CASE key.sk_strategy = KMER_EQUAL_STRATEGY ->
              L <= Len(q) /\ \A i \in 1..L : partial[i] = q[i]
         [] key.sk_strategy = KMER_PREFIX_STRATEGY ->
              \A i \in 1..Min2(L, Len(q)) : partial[i] = q[i]
         [] key.sk_strategy = KMER_CONTAINS_STRATEGY ->
              L <= Len(q) /\ \A i \in 1..L : PatternMatches(q[i], partial[i])

\* a returned inner_consistent call whose scan keys all have a number of
\* the callback's cases
RecognizedInnerCall ==
    /\ call.state = "returned"
    /\ call.fn = "spg_kmer_inner_consistent"
    /\ \A j \in 1..Len(call.in.scankeys) : ~Unrecognized(call.in.scankeys[j])

InnerReturnsPossibleSlots ==
    RecognizedInnerCall =>
        LET nodes == call.out.nodes
        IN /\ ~call.out.error
           /\ \A n, m \in 1..Len(nodes) :
                 n < m => nodes[n].nodeNumber < nodes[m].nodeNumber
           /\ {nodes[n].nodeNumber : n \in 1..Len(nodes)}
                = {i \in 0..(Len(call.in.nodeLabels) - 1) :
                      \A j \in 1..Len(call.in.scankeys) :
                          RemainsPossible(call.in.scankeys[j],
                                          PartialKey(call.in, i))}

\* a call with an equal and a contains predicate on a tuple of four nodes,
\* below a context: the partial keys are longer than the arguments, no slot
\* is returned though the arguments agree with the partial keys' beginning
InnerReturnsPossibleSlotsWitness ==
    /\ RecognizedInnerCall
    /\ Len(call.in.nodeLabels) = 4
    /\ call.in.level = 1
    /\ Len(call.in.scankeys) = 2
    /\ call.in.scankeys[1].sk_strategy = KMER_EQUAL_STRATEGY
    /\ call.in.scankeys[1].sk_argument = call.in.reconstructedValue.data
    /\ call.in.scankeys[2].sk_strategy = KMER_CONTAINS_STRATEGY
    /\ call.out.nodes = <<>>

\* a call with a prefix and a contains predicate that returns two of the
\* three slots of the tuple
InnerReturnsSomeSlots ==
    /\ RecognizedInnerCall
    /\ Len(call.in.nodeLabels) = 3
    /\ Len(call.in.scankeys) = 2
    /\ call.in.scankeys[1].sk_strategy = KMER_PREFIX_STRATEGY
    /\ call.in.scankeys[2].sk_strategy = KMER_CONTAINS_STRATEGY
    /\ Len(call.out.nodes) = 2

(***************************************************************************)
(* choose and inner_consistent called on one node of one inner tuple.      *)
(* LevelSpec draws an inner tuple whose labels range over the values an    *)
(* int16 label holds for a dummy (-2, -1) and for a byte (0 .. 255, of     *)
(* which 0, two letters and 255 are taken), picks one of its nodes, and    *)
(* calls choose with a key that continues the context with the prefix and  *)
(* the node's byte, then inner_consistent with a predicate every node      *)
(* passes.                                                                 *)
(***************************************************************************)
LevelLabels == {-2, -1, 0, 65, 67, 255}

MaxLevelNodes == 3       \* most nodes of the inner tuple

\* the ascending label arrays of 1 to MaxLevelNodes labels
LevelNodeLabels ==
    {nl \in UNION {[1..n -> LevelLabels] : n \in 1..MaxLevelNodes} :
        \A a, b \in 1..Len(nl) : a < b => nl[a] < nl[b]}

\* the key that leads to node i (from 1): context, prefix, the node's byte
LevelKey(context, pd, nl, i) ==
    context \o pd \o (IF nl[i] >= 0 THEN <<nl[i]>> ELSE <<>>)

LevelInit ==
    /\ tuples = <<>>
    /\ root = NoDownlink
    /\ heap = EmptyBag
    /\ ins = InsIdle
    /\ scan = ScanIdle
    /\ \E context \in {<<>>, <<65>>}, pd \in {<<>>, <<65>>, <<65, 67>>},
          nl \in LevelNodeLabels, rest \in {<<>>, <<67>>} :
          \E i \in 1..Len(nl) :
             call = [state |-> "called", fn |-> "level",
                     node |-> i - 1,
                     chooseIn |-> [datum |-> LevelKey(context, pd, nl, i)
                                             \o (IF nl[i] >= 0 THEN rest ELSE <<>>),
                                   level |-> Len(context),
                                   hasPrefix |-> pd # <<>>,
                                   prefixDatum |-> pd,
                                   nodeLabels |-> nl,
                                   allTheSame |-> FALSE],
                     innerIn |-> InnerConsistentIn(
                                    <<[sk_strategy |-> KMER_PREFIX_STRATEGY,
                                       sk_argument |-> <<>>,
                                       predicate |-> "prefix"]>>,
                                    IF context = <<>> THEN NullDatum
                                    ELSE [isNull |-> FALSE, data |-> context],
                                    pd # <<>>, pd, nl)]

LevelChooseCall ==
    /\ call.state = "called"
    /\ call.fn = "level"
    /\ call' = [state |-> "chosen", fn |-> call.fn, node |-> call.node,
                chooseIn |-> call.chooseIn, innerIn |-> call.innerIn,
                chooseOut |-> spg_kmer_choose(call.chooseIn)]
    /\ UNCHANGED <<tuples, root, heap, ins, scan>>

LevelInnerCall ==
    /\ call.state = "chosen"
    /\ call.fn = "level"
    /\ call' = [state |-> "returned", fn |-> call.fn, node |-> call.node,
                chooseIn |-> call.chooseIn, innerIn |-> call.innerIn,
                chooseOut |-> call.chooseOut,
                innerOut |-> spg_kmer_inner_consistent(call.innerIn)]
    /\ UNCHANGED <<tuples, root, heap, ins, scan>>

LevelNext ==
    \/ LevelChooseCall
    \/ LevelInnerCall

LevelSpec == LevelInit /\ [][LevelNext]_vars

\* both callbacks have returned
LevelReturned == call.fn = "level" /\ call.state = "returned"

\* the label of the node of the call
LevelLabel == call.innerIn.nodeLabels[call.node + 1]

\* the length of the prefix of the tuple of the call
LevelPrefixLen == IF call.innerIn.hasPrefix THEN Len(call.innerIn.prefixDatum) ELSE 0

\* choose descends into the node of the call
ChooseDescends ==
    /\ call.chooseOut.resultType = "spgMatchNode"
    /\ call.chooseOut.nodeN = call.node

\* the level advance inner_consistent reports for the node of the call is a
InnerLevelAddIs(a) ==
    \E n \in 1..Len(call.innerOut.nodes) :
        /\ call.innerOut.nodes[n].nodeNumber = call.node
        /\ call.innerOut.nodes[n].levelAdd = a

RECURSIVE CallsReached(_, _, _, _)
CallsReached(d, level, recon, scankeys) ==
    IF d.inner = 0
    THEN {[fn |-> "spg_kmer_leaf_consistent", level |-> level,
           reconstructedValue |-> recon] : i \in 1..Len(d.leaves)}
    ELSE LET t == tuples[d.inner]
             ic == spg_kmer_inner_consistent([scankeys |-> scankeys,
                                              reconstructedValue |-> recon,
                                              level |-> level,
                                              hasPrefix |-> t.hasPrefix,
                                              prefixDatum |-> t.prefixDatum,
                                              nodeLabels |-> t.nodeLabels])
         IN {[fn |-> "spg_kmer_inner_consistent", level |-> level,
              reconstructedValue |-> recon]}
            \cup UNION {CallsReached(t.downlinks[ic.nodes[j].nodeNumber + 1],
                                     level + ic.nodes[j].levelAdd,
                                     ic.nodes[j].reconstructedValue,
                                     scankeys) : j \in 1..Len(ic.nodes)}

\* Assert(reconstructedValue == NULL ? level == 0 : size == level)
EntryAssertion(c) ==
    IF c.reconstructedValue.isNull THEN c.level = 0
    ELSE Len(c.reconstructedValue.data) = c.level

EntryAssertionHolds ==
    scan.state = "done" =>
        \A c \in CallsReached(root, 0, NullDatum, scan.scankeys) :
            EntryAssertion(c)

\* a traversal that called inner_consistent below the root, leaf_consistent
\* at level MaxKeyLen, and leaf_consistent below a dummy label of the root,
\* with a reconstructed value of no bytes
EntryAssertionHoldsWitness ==
    /\ scan.state = "done"
    /\ \E a, b, c \in CallsReached(root, 0, NullDatum, scan.scankeys) :
          /\ a.fn = "spg_kmer_inner_consistent" /\ a.level > 0
          /\ b.fn = "spg_kmer_leaf_consistent" /\ b.level = MaxKeyLen
          /\ c.fn = "spg_kmer_leaf_consistent" /\ c.level = 0
          /\ ~c.reconstructedValue.isNull

(***************************************************************************)
(* C27: whenever a traversal that evaluates prefix(q) reaches              *)
(* leaf_consistent with level >= len(q), the reconstructed context already *)
(* begins with q, so the shortcut of the prefix case (level >= queryLen)   *)
(* never accepts a key that does not start with q.                         *)
(***************************************************************************)
\* s begins with q
BeginsWith(s, q) == Len(q) <= Len(s) /\ \A i \in 1..Len(q) : s[i] = q[i]

\* the arguments of the prefix predicates of the scan keys
PrefixArgs(scankeys) ==
    {scankeys[j].sk_argument :
        j \in {n \in 1..Len(scankeys) : scankeys[n].sk_strategy = KMER_PREFIX_STRATEGY}}

PrefixShortcutSound ==
    scan.state = "done" =>
        \A l \in LeavesReached(root, 0, NullDatum, scan.scankeys) :
            \A q \in PrefixArgs(scan.scankeys) :
                /\ l.level >= Len(q) => BeginsWith(l.context, q)
                /\ (~l.out.error /\ l.out.res) => BeginsWith(l.heapPtr, q)

\* a traversal for prefix(q), q not empty, that reaches a leaf below the
\* root at a level >= len(q) with a residual of at least one byte, which the
\* shortcut accepts
PrefixShortcutSoundWitness ==
    /\ scan.state = "done"
    /\ \E l \in LeavesReached(root, 0, NullDatum, scan.scankeys) :
          \E q \in PrefixArgs(scan.scankeys) :
             /\ Len(q) >= 1
             /\ l.level >= Len(q)
             /\ Len(l.residual) >= 1
             /\ l.out.res

(***************************************************************************)
(* C28: for every prefix-divergence split choose produces, the upper       *)
(* tuple's prefix is the longest common prefix of the old prefix and the   *)
(* key's remainder, its single label is the old prefix's first byte after  *)
(* that common part, and upper prefix, label and the lower tuple's new     *)
(* prefix spell the old prefix (the lower tuple has no prefix exactly when *)
(* nothing remains), so every key below reconstructs as before.            *)
(***************************************************************************)
\* the length of the longest common prefix of a and b
LongestCommonPrefixLen(a, b) ==
    CHOOSE n \in 0..Min2(Len(a), Len(b)) :
        /\ \A i \in 1..n : a[i] = b[i]
        /\ n < Min2(Len(a), Len(b)) => a[n + 1] # b[n + 1]

\* choose is about to be called for the insertion's key on an inner tuple
\* whose prefix the key's remainder does not begin with
PrefixDiverges ==
    /\ ins.state = "descend"
    /\ InsTarget.inner # 0
    /\ tuples[InsTarget.inner].hasPrefix
    /\ ~BeginsWith(Suffix(ins.datum, ins.level), tuples[InsTarget.inner].prefixDatum)

PrefixSplitOutput ==
    PrefixDiverges =>
        LET old == tuples[InsTarget.inner].prefixDatum
            out == spg_kmer_choose(ChooseIn(InsTarget.inner))
            n == LongestCommonPrefixLen(old, Suffix(ins.datum, ins.level))
            upper == IF out.prefixHasPrefix THEN out.prefixPrefixDatum ELSE <<>>
            lower == IF out.postfixHasPrefix THEN out.postfixPrefixDatum ELSE <<>>
        IN /\ out.resultType = "spgSplitTuple"
           /\ upper = SubSeq(old, 1, n)
           /\ out.prefixNNodes = 1
           /\ out.prefixNodeLabels = <<old[n + 1]>>
           /\ out.childNodeN = 0
           /\ upper \o out.prefixNodeLabels \o lower = old
           /\ out.postfixHasPrefix <=> n + 1 < Len(old)
           /\ out.postfixHasPrefix => out.postfixPrefixDatum # <<>>

PrefixSplitKeepsKeys ==
    []PrefixSplitOutput
    /\ [][PrefixDiverges =>
             /\ ins' = ins
             /\ LeavesBelow(InsTarget, SubSeq(ins.datum, 1, ins.level))'
                  = LeavesBelow(InsTarget, SubSeq(ins.datum, 1, ins.level))]_vars

\* the insertion is at the upper tuple of a prefix-divergence split that
\* kept a part of the old prefix for itself, with leaves below the lower tuple
PrefixSplitKeepsKeysWitness ==
    /\ ChooseReturns("spgAddNode")
    /\ LET t == tuples[InsTarget.inner]
       IN /\ t.hasPrefix
          /\ Len(t.nodeLabels) = 1
          /\ t.nodeLabels[1] > 0
          /\ t.downlinks[1].inner # 0
          /\ tuples[t.downlinks[1].inner].nodeLabels # <<>>
          /\ LeavesBelow(InsTarget, SubSeq(ins.datum, 1, ins.level)) # EmptyBag

\* a state in which choose is about to split a prefix of MaxKeyLen bytes at
\* its first byte: no upper prefix, a lower prefix of one byte
PrefixSplitAtFirstByte ==
    /\ PrefixDiverges
    /\ Len(tuples[InsTarget.inner].prefixDatum) = MaxKeyLen
    /\ spg_kmer_choose(ChooseIn(InsTarget.inner)).postfixHasPrefix

(***************************************************************************)
(* C29: for every non-empty batch given to picksplit and every i,          *)
(* 0 <= mapTuplesToNodes[i] < nNodes <= nTuples, and the prefix, the label *)
(* of node mapTuplesToNodes[i] (nothing when it is -1) and                 *)
(* leafTupleDatums[i] spell the i-th input key, the prefix being the       *)
(* longest common prefix of the batch.                                     *)
(***************************************************************************)
PickSplitReassembles ==
    (call.state = "returned" /\ call.fn = "spg_kmer_picksplit") =>
        LET datums == call.in.datums
            out == call.out
            nTuples == Len(datums)
            prefix == IF out.hasPrefix THEN out.prefixDatum ELSE <<>>
        IN /\ prefix = SubSeq(datums[1], 1, BatchCommonLen(datums))
           /\ out.nNodes <= nTuples
           /\ Len(out.nodeLabels) = out.nNodes
           /\ Len(out.mapTuplesToNodes) = nTuples
           /\ Len(out.leafTupleDatums) = nTuples
           /\ \A i \in 1..nTuples :
                 /\ 0 <= out.mapTuplesToNodes[i]
                 /\ out.mapTuplesToNodes[i] < out.nNodes
                 /\ prefix
                    \o LabelBytes(out.nodeLabels[out.mapTuplesToNodes[i] + 1])
                    \o out.leafTupleDatums[i] = datums[i]

\* a batch of three keys handed over out of label order, split below a
\* common prefix into three nodes, the first with the label -1
PickSplitReassemblesWitness ==
    /\ call.state = "returned"
    /\ call.fn = "spg_kmer_picksplit"
    /\ Len(call.in.datums) = 3
    /\ call.out.hasPrefix
    /\ call.out.nNodes = 3
    /\ call.out.nodeLabels[1] = -1
    /\ call.out.mapTuplesToNodes = <<2, 0, 1>>

(***************************************************************************)
(* The loop of the core around choose: it calls choose, applies the        *)
(* result and calls choose again until the insertion stands at a leaf      *)
(* page, so a choose step that can be taken is taken (weak fairness on the *)
(* steps of the loop); when an insertion begins is left open.              *)
(* InsertFairSpec is the index under insertions alone.                     *)
(***************************************************************************)
ChooseStep ==
    \/ InsertMatchNode
    \/ InsertAddNode
    \/ InsertSplitTuple

InsertFairSpec == Init /\ [][Insert]_vars /\ WF_vars(ChooseStep)

\* the inner tuple that holds the downlink to inner tuple t, 0 for the root's
ParentOf(t) ==
    IF root.inner = t THEN 0
    ELSE CHOOSE u \in 1..Len(tuples) :
            \E n \in 1..Len(tuples[u].downlinks) : tuples[u].downlinks[n].inner = t

\* the number of inner tuples from the root down to inner tuple t, 0 for t = 0
RECURSIVE DepthOfTuple(_)
DepthOfTuple(t) == IF t = 0 THEN 0 ELSE 1 + DepthOfTuple(ParentOf(t))

\* how deep the insertion stands: the inner tuples above its downlink
InsDepth == DepthOfTuple(ins.parent)

\* the insertion stands at a leaf page: no choose call is left to make
AtLeaf == ins.state = "descend" /\ InsTarget.inner = 0

\* choose, called again after spgAddNode, descends into the node just added,
\* which has nothing below it
DescendsIntoNewChild ==
    /\ ChooseReturns("spgMatchNode")
    /\ LET t == InsTarget.inner
           out == spg_kmer_choose(ChooseIn(t))
       IN tuples[t].downlinks[out.nodeN + 1] = NoDownlink

\* a step of an insertion under way: at a leaf page it places the leaf tuple
\* and ends the insertion; at an inner tuple it is a descend that moves one
\* tuple down, or an add-new-child after which choose descends into the new
\* child, or a split-upward after which choose adds a child
InsertStepProgress ==
    (ins.state = "descend" /\ vars' # vars) =>
        IF InsTarget.inner = 0
        THEN ins'.state = "idle"
        ELSE \/ /\ ChooseReturns("spgMatchNode")
                /\ tuples' = tuples
                /\ ins'.state = "descend"
                /\ InsDepth' = InsDepth + 1
                /\ ins'.level >= ins.level
             \/ /\ ChooseReturns("spgAddNode")
                /\ ins' = ins
                /\ DescendsIntoNewChild'
             \/ /\ ChooseReturns("spgSplitTuple")
                /\ ins' = ins
                /\ ChooseReturns("spgAddNode")'

(***************************************************************************)
(* C30: the insertion of any key into any tree the insertions have built   *)
(* terminates: the choose calls reach a leaf or a terminal add-new-child   *)
(* after finitely many steps, every descend moving strictly down and every *)
(* split-upward followed by a terminal decision on the reissued call.      *)
(***************************************************************************)
InsertionTerminates ==
    /\ (ins.state = "descend") ~> (AtLeaf \/ ins.state = "idle")
    /\ [][InsertStepProgress]_vars

\* an insertion that has descended through two inner tuples to a leaf page
\* that holds a leaf tuple
InsertionTerminatesWitness ==
    /\ AtLeaf
    /\ InsDepth >= 2
    /\ InsTarget.leaves # <<>>

\* an insertion that is about to split a tuple below the root
SplitBelowRoot ==
    /\ ins.state = "descend"
    /\ InsDepth >= 1
    /\ ChooseReturns("spgSplitTuple")

====
